---- MODULE Spec2Model ----
(***************************************************************************)
(* Host-side run orchestration of the isola Python SDK                     *)
(* (crates/python-sdk/python/isola/core.py): Sandbox.set_callback,         *)
(* Sandbox.run, Sandbox._run_operation and Sandbox.run_stream, executed on *)
(* one asyncio event loop, with the guest call running on a worker thread  *)
(* that posts events and its completion through call_soon_threadsafe.      *)
(*                                                                         *)
(* The event loop is modelled by its FIFO of ready handles (`ready`); a    *)
(* task is modelled by its position (`...Pc`) and a "Step" handle for each *)
(* wake-up.  The native core (isola._isola) is not part of the sources: it *)
(* is modelled as a callback slot that is read on every post, and a run    *)
(* future that is resolved after the guest's last event.                   *)
(***************************************************************************)
EXTENDS Integers, Sequences, FiniteSets, TLC

\* ------------------------------------------------------------------ bounds
MaxEvents == 2      \* events the guest emits before its call ends
NumProducers == 2   \* StreamArg producer tasks attached to the call
MaxCancels == 1     \* cancel() calls on the task driving run/run_stream
MaxSwaps == 1       \* set_callback calls made while the model runs
MaxPosts == 1       \* events posted through the core outside the guest call

Producers == 1..NumProducers

\* ------------------------------------------------------------------ values
NoneCb == "None"          \* a dispatch slot holding None
SinkCb == "sink"          \* run_stream's own _dispatch closure
UserCbs == {"a", "b"}     \* dispatch closures made by set_callback(a / b)
NoneData == "<None>"      \* Event.data is None

NoEvent == [kind |-> "-", data |-> "-"]

\* Every raw kind passed on as it is
EventKindMap_Identity(kind) == kind

\* _EVENT_KIND_MAP.get(kind, kind)
EventKindMap(kind) ==
    CASE kind = "result_json" -> "result"
      [] kind = "end_json" -> "end"
      [] OTHER -> kind

\* Event(kind=mapped_kind, data=data)
MkEvent(kind, data) == [kind |-> EventKindMap(kind), data |-> data]

\* ------------------------------------------------------------------ handles
Handle(t, who, idx, ev) == [t |-> t, who |-> who, idx |-> idx, ev |-> ev]
PutH(ev) == Handle("Put", "-", 0, ev)
InvokeH(cb, ev) == Handle("Invoke", cb, 0, ev)
OpDoneH(res) == Handle("OpDone", res, 0, NoEvent)
StepH(task) == Handle("Step", task, 0, NoEvent)
StepProdH(p) == Handle("Step", "prod", p, NoEvent)
WaitCbH(gen) == Handle("WaitCb", "-", gen, NoEvent)

InSeq(x, s) == \E i \in 1..Len(s) : s[i] = x
AddOnce(s, x) == IF InSeq(x, s) THEN s ELSE Append(s, x)

IsPrefix(s, t) == Len(s) <= Len(t) /\ \A i \in 1..Len(s) : s[i] = t[i]

VARIABLES
    eventDispatch,  \* Sandbox._event_dispatch
    coreCb,         \* the core's callback slot (core.set_callback)
    prev,           \* previous_dispatch captured by run_stream
    queue,          \* run_stream's asyncio.Queue
    ready,          \* the event loop's FIFO of ready handles
    callerPc,       \* position of the task driving run / run_stream
    callerCancel,   \* a CancelledError is pending for that task
    pendOutcome,    \* how run_stream leaves once its finally block is through
    waitGen,        \* which asyncio.wait call the caller is in
    waiterDone,     \* that call's waiter future is done
    runPc,          \* position of run_task (_run_operation)
    runMustCancel,  \* run_task._must_cancel
    runExc,         \* what _run_operation's except block re-raises
    join,           \* the gather over the producers run_task awaits
    getPc,          \* position of get_event_task (queue.get())
    getMustCancel,  \* get_event_task._must_cancel
    getResult,      \* get_event_task.result()
    opFut,          \* the awaitable core.run returned
    guestPc,        \* the guest call on the worker
    prod,           \* producer tasks of the StreamArgs
    runResult,      \* the lists Sandbox.run accumulates
    emitted,        \* history: every event posted through the core
    placed,         \* history: every event put on the queue
    yielded,        \* history: every event run_stream yielded
    seen,           \* history: events each user callback was invoked with
    registered,     \* history: the callback of the latest set_callback call
    counts,         \* cancels, swaps, posts done so far; events the drain loop yielded
    calls,          \* the calls handed to the core: where each one is
    stream,         \* a Stream: capacity, queued payloads, ended flag
    streamIO,       \* its producer and its consumer: positions and histories
    dlv,            \* callback delivery: registrations, loops' handles, tasks, close
    http,           \* configure and the HTTP bridge: timeout, one dispatch, its handler
    boxes,          \* two Sandboxes of one Context, each with its own run
    pollLoop        \* the guest's PollLoop: handles, wakers, the future it runs

hostVars == <<eventDispatch, coreCb, prev, queue, ready, callerPc, callerCancel,
          pendOutcome, waitGen, waiterDone, runPc, runMustCancel, runExc, join,
          getPc, getMustCancel, getResult, opFut, guestPc, prod, runResult, emitted, placed, yielded, seen, registered,
          counts>>

\* State of the parts that are followed on their own
extVars == <<calls, stream, streamIO, dlv, http, boxes, pollLoop>>

vars == <<hostVars, extVars>>

\* ------------------------------------------------------------------ positions
StreamPcs == {"wait", "yield", "joinGet", "drain"}   \* inside run_stream's try block
ActivePcs == StreamPcs \cup {"joinRun"}         \* ... or inside its finally block
CallerTerminal == {"returned", "raised", "cancelled", "closed"}
RunTerminal == {"ok", "failed", "cancelled"}
GetTerminal == {"done", "cancelled"}
ProdLive == {"running", "cleanup"}
ProdTerminal == {"done", "failed", "cancelled"}

Attached(pr) == {p \in Producers : pr[p].st # "absent"}
AllTerminal(pr) == \A p \in Attached(pr) : pr[p].st \in ProdTerminal
AtHead(h) == ready # <<>> /\ Head(ready) = h

\* ------------------------------------------------------------------ Sandbox.run
JsonNone == "None"
\* json.loads(event.data): the decoded value is not the text it was decoded from
JsonLoads(s) == IF s = "null" THEN JsonNone ELSE "json:" \o s

EmptyResult ==
    [results |-> <<>>, final |-> JsonNone, stdout |-> <<>>, stderr |-> <<>>,
     logs |-> <<>>, errors |-> <<>>]

\* RunFold with the `continue` after the log branch missing
RunFold_LogFallsThrough(acc, event) ==
    IF event.kind = "result"
    THEN IF event.data # NoneData
         THEN [acc EXCEPT !.results = Append(@, JsonLoads(event.data))]
         ELSE acc
    ELSE IF event.kind = "end"
    THEN [acc EXCEPT !.final = IF event.data = NoneData THEN JsonNone
                                ELSE JsonLoads(event.data)]
    ELSE IF event.kind = "stdout"
    THEN IF event.data # NoneData THEN [acc EXCEPT !.stdout = Append(@, event.data)] ELSE acc
    ELSE IF event.kind = "stderr"
    THEN IF event.data # NoneData THEN [acc EXCEPT !.stderr = Append(@, event.data)] ELSE acc
    ELSE IF event.kind = "log"
    THEN IF event.data # NoneData
         THEN [acc EXCEPT !.logs = Append(@, event.data), !.errors = Append(@, event.data)]
         ELSE acc
    ELSE IF event.data # NoneData THEN [acc EXCEPT !.errors = Append(@, event.data)] ELSE acc

\* One pass of the body of `async for event in self.run_stream(...)`
RunFold(acc, event) ==
    IF event.kind = "result"
    THEN IF event.data # NoneData
         THEN [acc EXCEPT !.results = Append(@, JsonLoads(event.data))]
         ELSE acc
    ELSE IF event.kind = "end"
    THEN [acc EXCEPT !.final = IF event.data = NoneData THEN JsonNone
                                ELSE JsonLoads(event.data)]
    ELSE IF event.kind = "stdout"
    THEN IF event.data # NoneData THEN [acc EXCEPT !.stdout = Append(@, event.data)] ELSE acc
    ELSE IF event.kind = "stderr"
    THEN IF event.data # NoneData THEN [acc EXCEPT !.stderr = Append(@, event.data)] ELSE acc
    ELSE IF event.kind = "log"
    THEN IF event.data # NoneData THEN [acc EXCEPT !.logs = Append(@, event.data)] ELSE acc
    ELSE IF event.data # NoneData THEN [acc EXCEPT !.errors = Append(@, event.data)] ELSE acc

\* ------------------------------------------------------------------ dispatch
\* set_callback's _dispatch: the callback is invoked later, on the loop
UserDispatch(cb, kind, data) == <<InvokeH(cb, MkEvent(kind, data))>>

\* run_stream's _dispatch replacing the previous callback instead of chaining to it
SinkDispatch_NoChain(kind, data) == <<PutH(MkEvent(kind, data))>>

\* run_stream's _dispatch: queue the event, then chain to previous_dispatch
SinkDispatch(kind, data) ==
    <<PutH(MkEvent(kind, data))>>
        \o (IF prev # NoneCb THEN UserDispatch(prev, kind, data) ELSE <<>>)

\* The core posting one event: it calls whatever callback its slot holds now
CorePost(kind, data) ==
    IF coreCb = NoneCb THEN <<>>
    ELSE IF coreCb = SinkCb THEN SinkDispatch(kind, data)
    ELSE UserDispatch(coreCb, kind, data)

Logged(kind, data) ==
    Append(emitted, [ev |-> MkEvent(kind, data), reg |-> registered, at |-> callerPc])

\* ------------------------------------------------------------------ producers
\* producer.cancel() for every producer
ProdCancel(pr) ==
    [p \in Producers |->
        IF pr[p].st \in ProdLive THEN [pr[p] EXCEPT !.cancelReq = TRUE] ELSE pr[p]]

RECURSIVE AddProdSteps(_, _, _)
AddProdSteps(rdy, pr, p) ==
    IF p > NumProducers THEN rdy
    ELSE AddProdSteps(IF pr[p].st \in ProdLive THEN AddOnce(rdy, StepProdH(p)) ELSE rdy,
                      pr, p + 1)

\* The success path returning without awaiting the producers
OkJoinInit_NoWait(pr) == "ok"

\* asyncio.gather(*producers): the state of the gathering future when it is made
OkJoinInit(pr) ==
    IF \E p \in Attached(pr) : pr[p].st \in {"failed", "cancelled"}
    THEN LET first == CHOOSE p \in Attached(pr) :
                         /\ pr[p].st \in {"failed", "cancelled"}
                         /\ \A q \in Attached(pr) :
                               pr[q].st \in {"failed", "cancelled"} => p <= q
         IN IF pr[first].st = "failed" THEN "exc" ELSE "cancelled"
    ELSE IF AllTerminal(pr) THEN "ok" ELSE "pending"

\* asyncio.gather(*producers, return_exceptions=True)
ExceptJoinInit(pr) == IF AllTerminal(pr) THEN "ok" ELSE "pending"

\* The gathering future after producer p reached the terminal state pr[p].st
JoinAfter(j, pr, p) ==
    IF j.st # "pending" THEN j
    ELSE IF runPc = "okJoin" /\ pr[p].st = "failed" THEN [j EXCEPT !.st = "exc"]
    ELSE IF runPc = "okJoin" /\ pr[p].st = "cancelled" THEN [j EXCEPT !.st = "cancelled"]
    ELSE IF AllTerminal(pr)
    THEN [j EXCEPT !.st = IF j.cancelReq THEN "cancelled" ELSE "ok"]
    ELSE j

\* Producer p ends in state st: its task is done and the gather is told
ProdEnds(p, st, rdy) ==
    LET pr == [prod EXCEPT ![p] = [st |-> st, cancelReq |-> FALSE]]
        j == IF runPc \in {"okJoin", "exceptJoin"} THEN JoinAfter(join, pr, p) ELSE join
    IN /\ prod' = pr
       /\ join' = j
       /\ ready' = IF j.st # join.st THEN Append(rdy, StepH("run")) ELSE rdy

\* ------------------------------------------------------------------ run_task
\* run_task.cancel()
RunCancel(rdy) ==
    LET same == [must |-> runMustCancel, op |-> opFut, join |-> join,
                 prod |-> prod, ready |-> rdy]
    IN IF runPc \in RunTerminal THEN same
       ELSE IF runPc = "created" THEN [same EXCEPT !.must = TRUE]
       ELSE IF runPc = "awaitOp"
       THEN IF opFut = "pending"
            THEN [same EXCEPT !.op = "cancelled", !.ready = Append(rdy, StepH("run"))]
            ELSE [same EXCEPT !.must = TRUE]
       ELSE IF join.st # "pending" THEN [same EXCEPT !.must = TRUE]
       ELSE [same EXCEPT !.join = [join EXCEPT !.cancelReq = TRUE],
                         !.prod = ProdCancel(prod),
                         !.ready = AddProdSteps(rdy, prod, 1)]

\* run_task is done: asyncio.wait's callback, or the finally block's gather, is told
RunDoneNotify(rdy) ==
    IF callerPc = "wait" THEN Append(rdy, WaitCbH(waitGen))
    ELSE IF callerPc = "joinRun" THEN Append(rdy, StepH("caller"))
    ELSE rdy

\* get_event_task is done
GetDoneNotify(rdy) ==
    IF callerPc = "wait" THEN Append(rdy, WaitCbH(waitGen))
    ELSE IF callerPc = "joinGet" THEN Append(rdy, StepH("caller"))
    ELSE rdy

\* ------------------------------------------------------------------ Init
\* Everything but the inputs, as Sandbox.__init__ and an idle loop leave it
IdleFrame ==
    /\ prev = NoneCb
    /\ ready = <<>>
    /\ callerPc = "idle"
    /\ callerCancel = FALSE
    /\ pendOutcome = "-"
    /\ waitGen = 0
    /\ waiterDone = FALSE
    /\ runPc = "none"
    /\ runMustCancel = FALSE
    /\ runExc = "-"
    /\ join = [st |-> "none", cancelReq |-> FALSE, waited |-> FALSE]
    /\ getPc = "none"
    /\ getMustCancel = FALSE
    /\ getResult = NoEvent
    /\ opFut = "none"
    /\ guestPc = "idle"
    /\ runResult = EmptyResult
    /\ emitted = <<>>
    /\ placed = <<>>
    /\ yielded = <<>>
    /\ seen = [c \in UserCbs |-> <<>>]
    /\ counts = [cancels |-> 0, swaps |-> 0, posts |-> 0, emits |-> 0, swapIn |-> FALSE,
                 drained |-> FALSE]

\* No call was handed to the core
CallsIdle == calls = <<>>

\* No Stream is followed
StreamIdle == stream = <<>> /\ streamIO = <<>>

\* No callback delivery is followed
CbIdle == dlv = <<>>

\* No configure call and no HTTP dispatch is followed
HttpIdle == http = <<>>

\* No second Sandbox is followed
BoxesIdle == boxes = <<>>

\* The parts followed on their own that come after the Stream and the delivery
PollIdle == pollLoop = <<>>

RestIdle == HttpIdle /\ BoxesIdle /\ PollIdle

ExtIdle == CallsIdle /\ StreamIdle /\ CbIdle /\ RestIdle

\* A sandbox with callback a, or none, set; n producer tasks of StreamArgs running
Init ==
    /\ \E cb0 \in {NoneCb, "a"} :
          /\ eventDispatch = cb0
          /\ coreCb = cb0
          /\ registered = cb0
    /\ \E n \in 0..NumProducers :
          prod = [p \in Producers |->
                     [st |-> IF p <= n THEN "running" ELSE "absent", cancelReq |-> FALSE]]
    /\ queue = <<>>
    /\ IdleFrame
    /\ ExtIdle

\* ------------------------------------------------------------------ set_callback
\* set_callback updating Sandbox._event_dispatch only
SetCoreCallback_Forgotten(c) == coreCb

\* self._core.set_callback(...): what the core's slot holds afterwards
SetCoreCallback(c) == c

\* Sandbox.set_callback(c), called by any task of the loop while run_stream is
\* active: c is b or None
SetCallback(c) ==
    /\ counts.swaps < MaxSwaps
    /\ callerPc \in ActivePcs
    /\ eventDispatch' = c
    /\ coreCb' = SetCoreCallback(c)
    /\ registered' = c
    /\ counts' = [counts EXCEPT !.swaps = @ + 1,
                                !.swapIn = @ \/ callerPc \in ActivePcs]
    /\ UNCHANGED <<prev, queue, ready, callerPc, callerCancel, pendOutcome, waitGen,
                   waiterDone, runPc, runMustCancel, runExc, join, getPc,
                   getMustCancel, getResult, opFut, guestPc, prod, runResult,
                   emitted, placed, yielded, seen>>
    /\ UNCHANGED extVars

\* ------------------------------------------------------------------ the guest
GuestKinds == {"stdout"}

HostFrame == <<eventDispatch, coreCb, prev, queue, callerPc, callerCancel,
               pendOutcome, waitGen, waiterDone, runPc, runMustCancel, runExc,
               join, getPc, getMustCancel, getResult, opFut, prod, runResult,
               placed, yielded, seen, registered>>

\* The guest emits one event from the worker thread
GuestEmit(kind) ==
    /\ guestPc = "running"
    /\ counts.emits < MaxEvents
    /\ LET data == ToString(counts.emits + 1)
       IN /\ ready' = ready \o CorePost(kind, data)
          /\ emitted' = Logged(kind, data)
    /\ counts' = [counts EXCEPT !.emits = @ + 1]
    /\ UNCHANGED <<HostFrame, guestPc>>
    /\ UNCHANGED extVars

\* The guest function returns: the end event, then the run future's result
GuestReturn(data) ==
    /\ guestPc = "running"
    /\ opFut = "pending"
    /\ ready' = (ready \o CorePost("end_json", data)) \o <<OpDoneH("ok")>>
    /\ emitted' = Logged("end_json", data)
    /\ guestPc' = "stopped"
    /\ UNCHANGED <<HostFrame, counts>>
    /\ UNCHANGED extVars

\* The guest function raises: an error event and no end, then the run future fails
GuestRaise ==
    /\ guestPc = "running"
    /\ opFut = "pending"
    /\ ready' = (ready \o CorePost("error", "boom")) \o <<OpDoneH("raised")>>
    /\ emitted' = Logged("error", "boom")
    /\ guestPc' = "stopped"
    /\ UNCHANGED <<HostFrame, counts>>
    /\ UNCHANGED extVars

\* The sandbox timeout ends the guest call: the run future fails
GuestTimeout ==
    /\ guestPc = "running"
    /\ opFut = "pending"
    /\ ready' = Append(ready, OpDoneH("timeout"))
    /\ guestPc' = "stopped"
    /\ UNCHANGED <<HostFrame, counts, emitted>>
    /\ UNCHANGED extVars

\* The worker notices that the run future was cancelled and tears the call down
GuestAbort ==
    /\ guestPc = "running"
    /\ opFut = "cancelled"
    /\ guestPc' = "stopped"
    /\ UNCHANGED <<HostFrame, counts, emitted, ready>>
    /\ UNCHANGED extVars

\* The core's current callback is invoked once the call is over (run_task is
\* done), while run_stream is still finishing or after it
PostAfter ==
    /\ runPc \in RunTerminal
    /\ guestPc # "running"
    /\ counts.posts < MaxPosts
    /\ LET data == "after" \o ToString(counts.posts + 1)
       IN /\ ready' = ready \o CorePost("stdout", data)
          /\ emitted' = Logged("stdout", data)
    /\ counts' = [counts EXCEPT !.posts = @ + 1]
    /\ UNCHANGED <<HostFrame, guestPc>>
    /\ UNCHANGED extVars

\* ------------------------------------------------------------------ producers
\* A producer's source is exhausted: _produce returns
ProdFinish(p) ==
    /\ prod[p].st = "running"
    /\ ~prod[p].cancelReq
    /\ runPc \in {"created", "awaitOp", "okJoin"}
    /\ ProdEnds(p, "done", ready)
    /\ UNCHANGED <<eventDispatch, coreCb, prev, queue, callerPc, callerCancel,
                   pendOutcome, waitGen, waiterDone, runPc, runMustCancel, runExc,
                   getPc, getMustCancel, getResult, opFut, guestPc, runResult,
                   emitted, placed, yielded, seen, registered, counts>>
    /\ UNCHANGED extVars

\* A producer's source, serialization or push raises
ProdFail(p) ==
    /\ prod[p].st = "running"
    /\ ~prod[p].cancelReq
    /\ runPc \in {"created", "awaitOp", "okJoin"}
    /\ ProdEnds(p, "failed", ready)
    /\ UNCHANGED <<eventDispatch, coreCb, prev, queue, callerPc, callerCancel,
                   pendOutcome, waitGen, waiterDone, runPc, runMustCancel, runExc,
                   getPc, getMustCancel, getResult, opFut, guestPc, runResult,
                   emitted, placed, yielded, seen, registered, counts>>
    /\ UNCHANGED extVars

\* A cancelled producer is stepped: CancelledError is thrown into _produce
StepProdCancelled(p) ==
    /\ AtHead(StepProdH(p))
    /\ prod[p].st \in ProdLive
    /\ ProdEnds(p, "cancelled", Tail(ready))
    /\ UNCHANGED <<eventDispatch, coreCb, prev, queue, callerPc, callerCancel,
                   pendOutcome, waitGen, waiterDone, runPc, runMustCancel, runExc,
                   getPc, getMustCancel, getResult, opFut, guestPc, runResult,
                   emitted, placed, yielded, seen, registered, counts>>
    /\ UNCHANGED extVars

\* ... but the source async iterator awaits in its own cleanup first
StepProdCleanup(p) ==
    /\ AtHead(StepProdH(p))
    /\ prod[p].st = "running"
    /\ prod' = [prod EXCEPT ![p] = [st |-> "cleanup", cancelReq |-> FALSE]]
    /\ ready' = Tail(ready)
    /\ UNCHANGED <<eventDispatch, coreCb, prev, queue, callerPc, callerCancel,
                   pendOutcome, waitGen, waiterDone, runPc, runMustCancel, runExc,
                   join, getPc, getMustCancel, getResult, opFut, guestPc, runResult,
                   emitted, placed, yielded, seen, registered, counts>>
    /\ UNCHANGED extVars

\* The source's cleanup is through: the producer ends cancelled
ProdCleanupDone(p) ==
    /\ prod[p].st = "cleanup"
    /\ ~prod[p].cancelReq
    /\ ProdEnds(p, "cancelled", ready)
    /\ UNCHANGED <<eventDispatch, coreCb, prev, queue, callerPc, callerCancel,
                   pendOutcome, waitGen, waiterDone, runPc, runMustCancel, runExc,
                   getPc, getMustCancel, getResult, opFut, guestPc, runResult,
                   emitted, placed, yielded, seen, registered, counts>>
    /\ UNCHANGED extVars

\* ------------------------------------------------------------------ loop handles
\* A queue that hands out the newest event first
QueuePut_Front(q, ev) == <<ev>> \o q

\* queue.put_nowait(event)
QueuePut(q, ev) == Append(q, ev)

\* loop.call_soon_threadsafe(queue.put_nowait, event) runs: a parked getter is woken
RunPut ==
    /\ ready # <<>>
    /\ Head(ready).t = "Put"
    /\ queue' = QueuePut(queue, Head(ready).ev)
    /\ placed' = Append(placed, Head(ready).ev)
    /\ IF getPc = "parked"
       THEN getPc' = "woken" /\ ready' = Append(Tail(ready), StepH("get"))
       ELSE getPc' = getPc /\ ready' = Tail(ready)
    /\ UNCHANGED <<eventDispatch, coreCb, prev, callerPc, callerCancel, pendOutcome,
                   waitGen, waiterDone, runPc, runMustCancel, runExc, join,
                   getMustCancel, getResult, opFut, guestPc, prod, runResult,
                   emitted, yielded, seen, registered, counts>>
    /\ UNCHANGED extVars

\* set_callback's _invoke runs on the loop: callback(event)
RunInvoke ==
    /\ ready # <<>>
    /\ Head(ready).t = "Invoke"
    /\ seen' = [seen EXCEPT ![Head(ready).who] = Append(@, Head(ready).ev)]
    /\ ready' = Tail(ready)
    /\ UNCHANGED <<eventDispatch, coreCb, prev, queue, callerPc, callerCancel,
                   pendOutcome, waitGen, waiterDone, runPc, runMustCancel, runExc,
                   join, getPc, getMustCancel, getResult, opFut, guestPc, prod,
                   runResult, emitted, placed, yielded, registered, counts>>
    /\ UNCHANGED extVars

\* The run future is resolved on the loop, unless it was cancelled meanwhile
RunOpDone ==
    /\ ready # <<>>
    /\ Head(ready).t = "OpDone"
    /\ IF opFut = "pending"
       THEN opFut' = Head(ready).who /\ ready' = Append(Tail(ready), StepH("run"))
       ELSE opFut' = opFut /\ ready' = Tail(ready)
    /\ UNCHANGED <<eventDispatch, coreCb, prev, queue, callerPc, callerCancel,
                   pendOutcome, waitGen, waiterDone, runPc, runMustCancel, runExc,
                   join, getPc, getMustCancel, getResult, guestPc, prod, runResult,
                   emitted, placed, yielded, seen, registered, counts>>
    /\ UNCHANGED extVars

\* asyncio.wait's _on_completion callback: the first one sets the waiter
RunWaitCb ==
    /\ ready # <<>>
    /\ Head(ready).t = "WaitCb"
    /\ IF Head(ready).idx = waitGen /\ callerPc = "wait" /\ ~waiterDone
       THEN waiterDone' = TRUE /\ ready' = Append(Tail(ready), StepH("caller"))
       ELSE waiterDone' = waiterDone /\ ready' = Tail(ready)
    /\ UNCHANGED <<eventDispatch, coreCb, prev, queue, callerPc, callerCancel,
                   pendOutcome, waitGen, runPc, runMustCancel, runExc, join, getPc,
                   getMustCancel, getResult, opFut, guestPc, prod, runResult,
                   emitted, placed, yielded, seen, registered, counts>>
    /\ UNCHANGED extVars

\* ------------------------------------------------------------------ get_event_task
\* A step of asyncio.create_task(queue.get())
StepGet ==
    /\ AtHead(StepH("get"))
    /\ getPc \in {"created", "woken", "cancelling"}
    /\ IF getPc = "cancelling" \/ getMustCancel
       THEN /\ getPc' = "cancelled"
            /\ ready' = GetDoneNotify(Tail(ready))
            /\ UNCHANGED <<queue, getResult>>
       ELSE IF queue # <<>>
       THEN /\ getPc' = "done"
            /\ getResult' = Head(queue)
            /\ queue' = Tail(queue)
            /\ ready' = GetDoneNotify(Tail(ready))
       ELSE /\ getPc' = "parked"
            /\ ready' = Tail(ready)
            /\ UNCHANGED <<queue, getResult>>
    /\ getMustCancel' = FALSE
    /\ UNCHANGED <<eventDispatch, coreCb, prev, callerPc, callerCancel, pendOutcome,
                   waitGen, waiterDone, runPc, runMustCancel, runExc, join, opFut,
                   guestPc, prod, runResult, emitted, placed, yielded, seen,
                   registered, counts>>
    /\ UNCHANGED extVars

\* ------------------------------------------------------------------ _run_operation
\* First step of run_task: _encode_args, then core.run starts the guest call
RunStart ==
    /\ AtHead(StepH("run"))
    /\ runPc = "created"
    /\ IF runMustCancel
       THEN /\ runPc' = "cancelled"
            /\ runExc' = "cancelled"
            /\ ready' = RunDoneNotify(Tail(ready))
            /\ UNCHANGED <<opFut, guestPc>>
       ELSE /\ runPc' = "awaitOp"
            /\ opFut' = "pending"
            /\ guestPc' = "running"
            /\ ready' = Tail(ready)
            /\ runExc' = runExc
    /\ runMustCancel' = FALSE
    /\ UNCHANGED <<eventDispatch, coreCb, prev, queue, callerPc, callerCancel,
                   pendOutcome, waitGen, waiterDone, join, getPc, getMustCancel,
                   getResult, prod, runResult, emitted, placed, yielded, seen,
                   registered, counts>>
    /\ UNCHANGED extVars

\* ... or _encode_args / core.run raises before any guest call exists
RunStartFails ==
    /\ AtHead(StepH("run"))
    /\ runPc = "created"
    /\ ~runMustCancel
    /\ runPc' = "failed"
    /\ runExc' = "encode"
    /\ ready' = RunDoneNotify(Tail(ready))
    /\ UNCHANGED <<eventDispatch, coreCb, prev, queue, callerPc, callerCancel,
                   pendOutcome, waitGen, waiterDone, runMustCancel, join, getPc,
                   getMustCancel, getResult, opFut, guestPc, prod, runResult,
                   emitted, placed, yielded, seen, registered, counts>>
    /\ UNCHANGED extVars

\* How `await operation` ends for run_task
OpOutcome == IF runMustCancel \/ opFut = "cancelled" THEN "cancelled" ELSE opFut

\* run_task wakes from `await operation`: the except block, or the success path
RunAfterOp ==
    /\ AtHead(StepH("run"))
    /\ runPc = "awaitOp"
    /\ runMustCancel' = FALSE
    /\ IF OpOutcome = "ok"
       THEN IF Attached(prod) = {}
            THEN /\ runPc' = "ok"
                 /\ ready' = RunDoneNotify(Tail(ready))
                 /\ UNCHANGED <<join, prod, runExc>>
            ELSE /\ runPc' = "okJoin"
                 /\ join' = [st |-> OkJoinInit(prod), cancelReq |-> FALSE,
                           waited |-> OkJoinInit(prod) = "pending"]
                 /\ ready' = IF OkJoinInit(prod) # "pending"
                             THEN Append(Tail(ready), StepH("run")) ELSE Tail(ready)
                 /\ UNCHANGED <<prod, runExc>>
       ELSE /\ runExc' = OpOutcome
            /\ prod' = ProdCancel(prod)
            /\ IF Attached(prod) = {}
               THEN /\ runPc' = IF OpOutcome = "cancelled" THEN "cancelled" ELSE "failed"
                    /\ ready' = RunDoneNotify(Tail(ready))
                    /\ join' = join
               ELSE /\ runPc' = "exceptJoin"
                    /\ join' = [st |-> ExceptJoinInit(prod), cancelReq |-> FALSE,
                              waited |-> ExceptJoinInit(prod) = "pending"]
                    /\ ready' = IF ExceptJoinInit(prod) # "pending"
                                THEN Append(Tail(ready), StepH("run"))
                                ELSE AddProdSteps(Tail(ready), prod, 1)
    /\ UNCHANGED <<eventDispatch, coreCb, prev, queue, callerPc, callerCancel,
                   pendOutcome, waitGen, waiterDone, getPc, getMustCancel, getResult,
                   opFut, guestPc, runResult, emitted, placed, yielded, seen,
                   registered, counts>>
    /\ UNCHANGED extVars

\* How run_task ends once the gather over its producers is done
JoinOutcome ==
    IF runPc = "okJoin"
    THEN IF runMustCancel \/ join.st = "cancelled" THEN "cancelled"
         ELSE IF join.st = "exc" THEN "failed" ELSE "ok"
    ELSE IF runMustCancel \/ join.st = "cancelled" \/ runExc = "cancelled"
         THEN "cancelled" ELSE "failed"

\* run_task wakes from a gather over the producers and ends
RunAfterJoin ==
    /\ AtHead(StepH("run"))
    /\ runPc \in {"okJoin", "exceptJoin"}
    /\ runPc' = JoinOutcome
    /\ runExc' = IF runPc = "okJoin"
                 THEN (IF JoinOutcome = "failed" THEN "producer"
                       ELSE IF JoinOutcome = "cancelled" THEN "cancelled" ELSE runExc)
                 ELSE (IF JoinOutcome = "cancelled" THEN "cancelled" ELSE runExc)
    /\ runMustCancel' = FALSE
    /\ ready' = RunDoneNotify(Tail(ready))
    /\ UNCHANGED <<eventDispatch, coreCb, prev, queue, callerPc, callerCancel,
                   pendOutcome, waitGen, waiterDone, join, getPc, getMustCancel,
                   getResult, opFut, guestPc, prod, runResult, emitted, placed,
                   yielded, seen, registered, counts>>
    /\ UNCHANGED extVars

\* ------------------------------------------------------------------ run_stream
\* Top of `while True`: create get_event_task, then asyncio.wait on both tasks
LoopTop(rdy) ==
    /\ getPc' = "created"
    /\ getMustCancel' = FALSE
    /\ getResult' = NoEvent
    /\ waitGen' = waitGen + 1
    /\ waiterDone' = FALSE
    /\ callerPc' = "wait"
    /\ ready' = Append(rdy, StepH("get"))
                   \o (IF runPc \in RunTerminal THEN <<WaitCbH(waitGen + 1)>> ELSE <<>>)

\* A finally block that restores previous_dispatch whatever the slot holds
RestoreNeeded_Always == TRUE

\* A finally block that never restores previous_dispatch
RestoreNeeded_Never == FALSE

\* `if self._event_dispatch is _dispatch`: the finally block restores the slots
RestoreNeeded == eventDispatch = SinkCb

\* A finally block that leaves a running run_task alone
NeedsJoin_Never == FALSE

\* `if not run_task.done()`: the finally block cancels run_task and joins it
NeedsJoin == runPc \notin RunTerminal

\* run_stream's finally block, entered on the way to `outcome`
Finally(outcome, rdy) ==
    /\ eventDispatch' = IF RestoreNeeded THEN prev ELSE eventDispatch
    /\ coreCb' = IF RestoreNeeded THEN prev ELSE coreCb
    /\ callerCancel' = FALSE
    /\ IF NeedsJoin
       THEN LET rc == RunCancel(rdy)
            IN /\ runMustCancel' = rc.must
               /\ opFut' = rc.op
               /\ join' = rc.join
               /\ prod' = rc.prod
               /\ ready' = rc.ready
               /\ callerPc' = "joinRun"
               /\ pendOutcome' = outcome
       ELSE /\ callerPc' = outcome
            /\ ready' = rdy
            /\ UNCHANGED <<runMustCancel, opFut, join, prod, pendOutcome>>

\* Sandbox.run / run_stream is entered and runs up to its first `await`
RunStreamStart ==
    /\ callerPc = "idle"
    /\ prev' = eventDispatch
    /\ eventDispatch' = SinkCb
    /\ coreCb' = SinkCb
    /\ runPc' = "created"
    /\ LoopTop(Append(ready, StepH("run")))
    /\ UNCHANGED <<queue, callerCancel, pendOutcome, runMustCancel, runExc, join,
                   opFut, guestPc, prod, runResult, emitted, placed, yielded, seen,
                   registered, counts>>
    /\ UNCHANGED extVars

\* Testing run_task before get_event_task when asyncio.wait returns
WaitBranch_RunFirst == IF runPc \in RunTerminal THEN "finish" ELSE "yield"

\* Which branch the caller takes when asyncio.wait returns
WaitBranch == IF getPc = "done" THEN "yield" ELSE "finish"

\* asyncio.wait returned and get_event_task is in done: yield its event
CallerYield ==
    /\ AtHead(StepH("caller"))
    /\ callerPc = "wait"
    /\ ~callerCancel
    /\ WaitBranch = "yield"
    /\ getPc = "done"
    /\ yielded' = Append(yielded, getResult)
    /\ runResult' = RunFold(runResult, getResult)
    /\ callerPc' = "yield"
    /\ ready' = Tail(ready)
    /\ UNCHANGED <<eventDispatch, coreCb, prev, queue, callerCancel, pendOutcome,
                   waitGen, waiterDone, runPc, runMustCancel, runExc, join, getPc,
                   getMustCancel, getResult, opFut, guestPc, prod, emitted, placed,
                   seen, registered, counts>>
    /\ UNCHANGED extVars

\* The consumer asks for the next event: `continue`
ConsumerNext ==
    /\ callerPc = "yield"
    /\ LoopTop(ready)
    /\ UNCHANGED <<eventDispatch, coreCb, prev, queue, callerCancel, pendOutcome,
                   runPc, runMustCancel, runExc, join, opFut, guestPc, prod,
                   runResult, emitted, placed, yielded, seen, registered, counts>>
    /\ UNCHANGED extVars

\* The consumer closes the iterator at a yield: GeneratorExit reaches the finally
CloseEarly ==
    /\ callerPc \in {"yield", "drain"}
    /\ Finally("closed", ready)
    /\ UNCHANGED <<prev, queue, waitGen, waiterDone, runPc, runExc, getPc,
                   getMustCancel, getResult, guestPc, runResult, emitted, placed,
                   yielded, seen, registered, counts>>
    /\ UNCHANGED extVars

\* asyncio.wait returned with run_task alone in done: get_event_task.cancel(),
\* then `await asyncio.gather(get_event_task, return_exceptions=True)`
CallerRunDone ==
    /\ AtHead(StepH("caller"))
    /\ callerPc = "wait"
    /\ ~callerCancel
    /\ WaitBranch = "finish"
    /\ callerPc' = "joinGet"
    /\ IF getPc = "parked"
       THEN /\ getPc' = "cancelling"
            /\ ready' = Append(Tail(ready), StepH("get"))
            /\ getMustCancel' = getMustCancel
       ELSE IF getPc \in GetTerminal
       THEN /\ ready' = Append(Tail(ready), StepH("caller"))
            /\ UNCHANGED <<getPc, getMustCancel>>
       ELSE /\ getMustCancel' = TRUE
            /\ ready' = Tail(ready)
            /\ getPc' = getPc
    /\ UNCHANGED <<eventDispatch, coreCb, prev, queue, callerCancel, pendOutcome,
                   waitGen, waiterDone, runPc, runMustCancel, runExc, join,
                   getResult, opFut, guestPc, prod, runResult, emitted, placed,
                   yielded, seen, registered, counts>>
    /\ UNCHANGED extVars

\* What `await run_task` gives once run_task is done
RunTaskOutcome ==
    IF runPc = "ok" THEN "returned"
    ELSE IF runPc = "cancelled" THEN "cancelled" ELSE "raised"

\* `while not queue.empty(): yield queue.get_nowait()`, then `await run_task`,
\* `break`, and the finally block
DrainLoop(rdy) ==
    IF queue # <<>>
    THEN /\ yielded' = Append(yielded, Head(queue))
         /\ runResult' = RunFold(runResult, Head(queue))
         /\ queue' = Tail(queue)
         /\ callerPc' = "drain"
         /\ ready' = rdy
         /\ counts' = [counts EXCEPT !.drained = TRUE]
         /\ UNCHANGED <<eventDispatch, coreCb, callerCancel, runMustCancel, opFut,
                        join, prod, pendOutcome>>
    ELSE /\ Finally(RunTaskOutcome, rdy)
         /\ UNCHANGED <<yielded, runResult, queue, counts>>

\* get_event_task is joined: the caller goes into the drain loop
CallerDrain ==
    /\ AtHead(StepH("caller"))
    /\ callerPc = "joinGet"
    /\ ~callerCancel
    /\ DrainLoop(Tail(ready))
    /\ UNCHANGED <<prev, waitGen, waiterDone, runPc, runExc, getPc, getMustCancel,
                   getResult, guestPc, emitted, placed, seen, registered>>
    /\ UNCHANGED extVars

\* The consumer asks for the next event at a yield of the drain loop
DrainNext ==
    /\ callerPc = "drain"
    /\ DrainLoop(ready)
    /\ UNCHANGED <<prev, waitGen, waiterDone, runPc, runExc, getPc, getMustCancel,
                   getResult, guestPc, emitted, placed, seen, registered>>
    /\ UNCHANGED extVars

\* The caller is stepped with a CancelledError pending, inside the try block
CallerCancelled ==
    /\ AtHead(StepH("caller"))
    /\ callerPc \in {"wait", "joinGet"}
    /\ callerCancel
    /\ Finally("cancelled", Tail(ready))
    /\ UNCHANGED <<prev, queue, waitGen, waiterDone, runPc, runExc, getPc,
                   getMustCancel, getResult, guestPc, runResult, emitted, placed,
                   yielded, seen, registered, counts>>
    /\ UNCHANGED extVars

\* `await asyncio.gather(run_task, return_exceptions=True)` is through
CallerJoined ==
    /\ AtHead(StepH("caller"))
    /\ callerPc = "joinRun"
    /\ callerPc' = IF callerCancel THEN "cancelled" ELSE pendOutcome
    /\ callerCancel' = FALSE
    /\ ready' = Tail(ready)
    /\ UNCHANGED <<eventDispatch, coreCb, prev, queue, pendOutcome, waitGen,
                   waiterDone, runPc, runMustCancel, runExc, join, getPc,
                   getMustCancel, getResult, opFut, guestPc, prod, runResult,
                   emitted, placed, yielded, seen, registered, counts>>
    /\ UNCHANGED extVars

\* Another task calls cancel() on the task driving run / run_stream while that
\* task is suspended in one of run_stream's awaits
CancelCaller ==
    /\ counts.cancels < MaxCancels
    /\ callerPc \in {"wait", "joinGet", "joinRun"}
    /\ callerCancel' = TRUE
    /\ counts' = [counts EXCEPT !.cancels = @ + 1]
    /\ IF callerPc = "wait"
       THEN /\ waiterDone' = TRUE
            /\ ready' = IF waiterDone THEN ready ELSE Append(ready, StepH("caller"))
            /\ UNCHANGED <<runMustCancel, opFut, join, prod>>
       ELSE IF callerPc = "joinGet"
       THEN UNCHANGED <<waiterDone, ready, runMustCancel, opFut, join, prod>>
       ELSE LET rc == RunCancel(ready)
            IN /\ runMustCancel' = rc.must
               /\ opFut' = rc.op
               /\ join' = rc.join
               /\ prod' = rc.prod
               /\ ready' = rc.ready
               /\ waiterDone' = waiterDone
    /\ UNCHANGED <<eventDispatch, coreCb, prev, queue, callerPc, pendOutcome,
                   waitGen, runPc, runExc, getPc, getMustCancel, getResult, guestPc,
                   runResult, emitted, placed, yielded, seen, registered>>
    /\ UNCHANGED extVars

\* ------------------------------------------------------------------ the system
\* Steps of the event loop that every call takes
LoopStep ==
    \/ RunPut
    \/ RunInvoke
    \/ RunOpDone
    \/ RunWaitCb
    \/ StepGet
    \/ RunStart
    \/ RunStartFails
    \/ RunAfterOp
    \/ RunStreamStart
    \/ CallerYield
    \/ ConsumerNext
    \/ CloseEarly
    \/ CallerRunDone
    \/ CallerDrain
    \/ CallerCancelled
    \/ CallerJoined
    \/ CancelCaller

GuestEnds ==
    \/ \E d \in {NoneData, "7"} : GuestReturn(d)
    \/ GuestRaise
    \/ GuestTimeout
    \/ GuestAbort

\* A call without producer tasks: events, callbacks, set_callback during the run
InitNoProducers == Init /\ Attached(prod) = {}

Next ==
    \/ LoopStep
    \/ GuestEnds
    \/ \E k \in GuestKinds : GuestEmit(k)
    \/ \E c \in {"b", NoneCb} : SetCallback(c)
    \/ PostAfter
    \/ DrainNext

Spec == InitNoProducers /\ [][Next]_vars

\* A call with StreamArg producer tasks
NextJoin ==
    \/ LoopStep
    \/ GuestEnds
    \/ RunAfterJoin
    \/ \E p \in Producers : ProdFinish(p)
    \/ \E p \in Producers : ProdFail(p)
    \/ \E p \in Producers : StepProdCancelled(p)
    \/ \E p \in Producers : StepProdCleanup(p)
    \/ \E p \in Producers : ProdCleanupDone(p)

SpecJoin == Init /\ [][NextJoin]_vars

\* Scheduling: the loop runs the handle at the head of its queue, and a source
\* iterator's cleanup ends
HandleStep ==
    \/ RunPut
    \/ RunInvoke
    \/ RunOpDone
    \/ RunWaitCb
    \/ StepGet
    \/ RunStart
    \/ RunAfterOp
    \/ RunAfterJoin
    \/ CallerYield
    \/ CallerRunDone
    \/ CallerDrain
    \/ CallerCancelled
    \/ CallerJoined
    \/ \E p \in Producers : StepProdCancelled(p)

Fairness ==
    /\ WF_vars(HandleStep)
    /\ WF_vars(\E p \in Producers : ProdCleanupDone(p))

FairSpecJoin == Init /\ [][NextJoin]_vars /\ Fairness

\* ------------------------------------------------------------------ Sandbox.run as a fold
MaxRunEvents == 2   \* events run_stream yields to Sandbox.run

RunKinds == {"result_json", "end_json", "stdout", "stderr", "log", "error"}
RunData == {NoneData, "7", "null"}
RunEvents == {MkEvent(k, d) : k \in RunKinds, d \in RunData}

\* Any sequence of events run_stream may hand to Sandbox.run
InitRun ==
    /\ eventDispatch = NoneCb
    /\ coreCb = NoneCb
    /\ registered = NoneCb
    /\ prod = [p \in Producers |-> [st |-> "absent", cancelReq |-> FALSE]]
    /\ queue \in UNION {[1..n -> RunEvents] : n \in 0..MaxRunEvents}
    /\ IdleFrame
    /\ ExtIdle

\* `async for event in self.run_stream(name, args)`: one event is folded in
RunNextEvent ==
    /\ callerPc = "idle"
    /\ queue # <<>>
    /\ yielded' = Append(yielded, Head(queue))
    /\ runResult' = RunFold(runResult, Head(queue))
    /\ queue' = Tail(queue)
    /\ UNCHANGED <<eventDispatch, coreCb, prev, ready, callerPc, callerCancel,
                   pendOutcome, waitGen, waiterDone, runPc, runMustCancel, runExc,
                   join, getPc, getMustCancel, getResult, opFut, guestPc, prod,
                   emitted, placed, seen, registered, counts>>
    /\ UNCHANGED extVars

\* run_stream is exhausted: `return RunResult(...)`
RunReturn ==
    /\ callerPc = "idle"
    /\ queue = <<>>
    /\ callerPc' = "returned"
    /\ UNCHANGED <<eventDispatch, coreCb, prev, queue, ready, callerCancel,
                   pendOutcome, waitGen, waiterDone, runPc, runMustCancel, runExc,
                   join, getPc, getMustCancel, getResult, opFut, guestPc, prod,
                   runResult, emitted, placed, yielded, seen, registered, counts>>
    /\ UNCHANGED extVars

NextRun ==
    \/ RunNextEvent
    \/ RunReturn

SpecRun == InitRun /\ [][NextRun]_vars

\* ------------------------------------------------------------------ histories
EventsOf(log) == [i \in 1..Len(log) |-> log[i].ev]
IsInStream(e) == e.at \in StreamPcs
\* Events posted while run_stream's sink was installed
StreamLog == SelectSeq(emitted, IsInStream)
\* Events posted while c was the callback of the latest set_callback call
LogFor(c) == LET IsFor(e) == e.reg = c IN SelectSeq(emitted, IsFor)
Pending(t) == \E i \in 1..Len(ready) : ready[i].t = t
DataOfKind(evs, kind) ==
    LET Has(e) == e.kind = kind /\ e.data # NoneData
        sel == SelectSeq(evs, Has)
    IN [i \in 1..Len(sel) |-> sel[i].data]

\* ------------------------------------------------------------------ claims
\* C1: when the guest call fails or the driving task is cancelled, every
\* producer task has reached a terminal state before the failure or the
\* cancellation propagates to the caller (stated for calls whose guest call
\* was started).
C1_ProducersSettledBeforePropagation ==
    (/\ opFut # "none"
     /\ \/ callerPc = "raised" /\ opFut \in {"raised", "timeout"}
        \/ callerPc = "cancelled")
        => AllTerminal(prod)

\* C2: on the success path the call returns only after the guest call has
\* ended and every producer has finished; a producer that is still running is
\* awaited and never asked to cancel.
C2_SuccessJoinsProducers ==
    /\ callerPc = "returned" =>
          /\ opFut = "ok"
          /\ guestPc = "stopped"
          /\ \A p \in Attached(prod) : prod[p].st = "done"
    /\ (runPc = "okJoin" /\ join.st = "pending" /\ ~join.cancelReq) =>
          \A p \in Attached(prod) : ~prod[p].cancelReq

C2_Witness ==
    /\ callerPc = "returned"
    /\ Attached(prod) = Producers
    /\ join.waited

\* C3: at the step in which run_stream completes, it has yielded every event
\* that was placed on the queue so far, in the order placed, and nothing is
\* left on the queue, also when an event arrives while the pending get is being
\* cancelled.
C3_DrainedAtCompletion ==
    [][(callerPc \notin CallerTerminal /\ callerPc' \in {"returned", "raised"}) =>
          /\ queue' = <<>>
          /\ yielded' = placed'
          /\ runPc' \in RunTerminal
          /\ getPc' \in GetTerminal]_vars

C3_Witness ==
    /\ callerPc = "returned"
    /\ counts.drained
    /\ getPc = "cancelled"
    /\ Len(yielded) = MaxEvents + 2

\* C4: with no set_callback during the run, run_stream yields the events in
\* exactly the order the guest emitted them, and the one registered callback
\* is invoked with them in exactly that order: each once, none reordered.
C4_EmissionOrder ==
    counts.swaps = 0 =>
        /\ IsPrefix(yielded, EventsOf(StreamLog))
        /\ (callerPc \in {"returned", "raised"} /\ counts.posts = 0)
              => yielded = EventsOf(StreamLog)
        /\ seen["b"] = <<>>
        /\ IF registered = "a"
           THEN /\ IsPrefix(seen["a"], EventsOf(emitted))
                /\ ~Pending("Invoke") => seen["a"] = EventsOf(emitted)
           ELSE seen["a"] = <<>>

C4_Witness ==
    /\ counts.swaps = 0
    /\ registered = "a"
    /\ callerPc = "returned"
    /\ Len(yielded) = MaxEvents + 1
    /\ seen["a"] = yielded

\* C5: after set_callback(b) replaces a during a run, no event emitted after
\* the swap reaches a, and every such event reaches b, in emission order.
C5_SwapDuringRun ==
    counts.swapIn =>
        \A c \in UserCbs :
            /\ IsPrefix(seen[c], EventsOf(LogFor(c)))
            /\ ~Pending("Invoke") => seen[c] = EventsOf(LogFor(c))

C5_Witness ==
    /\ counts.swapIn
    /\ seen["a"] # <<>>
    /\ seen["b"] # <<>>
    /\ guestPc = "stopped"
    /\ ~Pending("Invoke")

\* C6: when set_callback(b) ran during run_stream, b is still the registered
\* callback once run_stream is over (its exit does not put a back), and an
\* event posted afterwards reaches b and not a.
C6_LatestCallbackKept ==
    (counts.swapIn /\ callerPc \in CallerTerminal) =>
        /\ eventDispatch = registered
        /\ coreCb = registered
        /\ \A i \in 1..Len(emitted) :
              emitted[i].at \in CallerTerminal =>
                 /\ \A c \in UserCbs \ {registered} : ~InSeq(emitted[i].ev, seen[c])
                 /\ (registered \in UserCbs /\ ~Pending("Invoke"))
                       => InSeq(emitted[i].ev, seen[registered])

C6_Witness ==
    /\ counts.swapIn
    /\ prev = "a"
    /\ registered = "b"
    /\ callerPc = "returned"
    /\ counts.posts = 1
    /\ InSeq(MkEvent("stdout", "after1"), seen["b"])

\* C7: when run_stream is over, however it ended, and no set_callback ran
\* during it, the registered callback is exactly the one that was registered
\* before it started (or none).
C7_CallbackRestored ==
    (callerPc \in CallerTerminal /\ counts.swaps = 0) =>
        /\ eventDispatch = prev
        /\ coreCb = prev
        /\ prev = registered

C7_Witness ==
    /\ callerPc = "cancelled"
    /\ counts.swaps = 0
    /\ prev = "a"
    /\ eventDispatch = "a"

\* C8: while run_stream is active over a previously set callback a, every
\* event goes both to run_stream's queue and to a.
C8_Chaining ==
    (prev = "a" /\ ~counts.swapIn) =>
        /\ IsPrefix(placed, EventsOf(StreamLog))
        /\ (~Pending("Put") /\ ~Pending("Invoke")) =>
              \A i \in 1..Len(StreamLog) :
                  /\ InSeq(StreamLog[i].ev, placed)
                  /\ InSeq(StreamLog[i].ev, seen["a"])

C8_Witness ==
    /\ prev = "a"
    /\ ~counts.swapIn
    /\ callerPc \in StreamPcs
    /\ Len(StreamLog) = MaxEvents
    /\ Len(placed) = MaxEvents
    /\ Len(seen["a"]) = MaxEvents

\* C9: when the caller is cancelled, or closes the iterator early, run_task is
\* cancelled and joined before run_stream's cleanup is through; a cancellation
\* reaches the caller as a cancellation, and the cleanup always gets through.
C9_CancelJoinsRunTask ==
    /\ [](callerPc \in CallerTerminal => runPc \in RunTerminal)
    /\ []((counts.cancels > 0 /\ callerPc \in CallerTerminal) => callerPc = "cancelled")
    /\ (callerCancel ~> callerPc = "cancelled")
    /\ (callerPc = "joinRun" ~> callerPc \in {"cancelled", "closed"})

C9_Witness ==
    /\ callerPc = "cancelled"
    /\ pendOutcome = "cancelled"
    /\ runPc = "cancelled"
    /\ Attached(prod) # {}

\* C10: the RunResult Sandbox.run returns is the aggregation of the events
\* run_stream yielded: decoded result data in results, the decoded data of the
\* last end event (None without data) in final, and the data of stdout, stderr,
\* log and error events in their lists, all in the order yielded.
C10_RunAggregates ==
    callerPc = "returned" =>
        /\ runResult.results =
              LET ds == DataOfKind(yielded, "result")
              IN [i \in 1..Len(ds) |-> JsonLoads(ds[i])]
        /\ runResult.final =
              LET IsEnd(e) == e.kind = "end"
                  ends == SelectSeq(yielded, IsEnd)
              IN IF ends = <<>> \/ ends[Len(ends)].data = NoneData THEN JsonNone
                 ELSE JsonLoads(ends[Len(ends)].data)
        /\ runResult.stdout = DataOfKind(yielded, "stdout")
        /\ runResult.stderr = DataOfKind(yielded, "stderr")
        /\ runResult.logs = DataOfKind(yielded, "log")
        /\ runResult.errors = DataOfKind(yielded, "error")

C10_Witness ==
    /\ callerPc = "returned"
    /\ Len(yielded) = MaxRunEvents
    /\ runResult.logs # <<>>
    /\ runResult.final # JsonNone

\* C11: for a guest call that returns normally, run_stream yields exactly one
\* end event and no event after it; for a call ended by a fatal guest error it
\* yields no end event.
C11_EndOnceAndLast ==
    LET IsEnd(e) == e.kind = "end"
        ends == SelectSeq(yielded, IsEnd)
    IN /\ (callerPc = "returned" /\ counts.posts = 0) =>
             /\ Len(ends) = 1
             /\ yielded[Len(yielded)].kind = "end"
       /\ opFut = "raised" => ends = <<>>

\* ... which holds of every run during which set_callback is not called
C11_EndOnceWithoutSwap == ~counts.swapIn => C11_EndOnceAndLast

\* ------------------------------------------------------------------ calls on one sandbox
NumCalls == 2        \* run / run_stream calls made on the one sandbox
MaxCallEvents == 2   \* events the guest emits in each call

CallIds == 1..NumCalls

HostIdle ==
    /\ eventDispatch = NoneCb
    /\ coreCb = NoneCb
    /\ registered = NoneCb
    /\ prod = [p \in Producers |-> [st |-> "absent", cancelReq |-> FALSE]]
    /\ queue = <<>>
    /\ IdleFrame

InitCalls ==
    /\ HostIdle
    /\ calls = [pc |-> [c \in CallIds |-> "idle"],
                emits |-> [c \in CallIds |-> 0],
                log |-> <<>>,
                overlap |-> FALSE]
    /\ StreamIdle
    /\ CbIdle
    /\ RestIdle

InFlight(c) == calls.pc[c] \in {"requested", "running"}

\* The sandbox's worker takes one call at a time
CoreFree_Always == TRUE

CoreFree == \A c \in CallIds : calls.pc[c] # "running"

\* _run_operation of call c: `operation = self._core.run(name, encoded_args)`
CallRun(c) ==
    /\ calls.pc[c] = "idle"
    /\ calls' = [calls EXCEPT !.pc[c] = "requested",
                              !.overlap = @ \/ \E d \in CallIds : InFlight(d)]
    /\ UNCHANGED <<hostVars, stream, streamIO, dlv, http, boxes, pollLoop>>

\* The worker starts the guest function of a call that was handed to it
CoreStart(c) ==
    /\ calls.pc[c] = "requested"
    /\ CoreFree
    /\ calls' = [calls EXCEPT !.pc[c] = "running",
                              !.log = Append(@, [call |-> c, what |-> "start"])]
    /\ UNCHANGED <<hostVars, stream, streamIO, dlv, http, boxes, pollLoop>>

\* The guest function of call c emits an event
CoreEmit(c) ==
    /\ calls.pc[c] = "running"
    /\ calls.emits[c] < MaxCallEvents
    /\ calls' = [calls EXCEPT !.emits[c] = @ + 1,
                              !.log = Append(@, [call |-> c, what |-> "emit"])]
    /\ UNCHANGED <<hostVars, stream, streamIO, dlv, http, boxes, pollLoop>>

\* The guest function of call c ends: `await operation` is through
CoreEnd(c) ==
    /\ calls.pc[c] = "running"
    /\ calls' = [calls EXCEPT !.pc[c] = "ended",
                              !.log = Append(@, [call |-> c, what |-> "end"])]
    /\ UNCHANGED <<hostVars, stream, streamIO, dlv, http, boxes, pollLoop>>

\* run_task of call c is cancelled before the worker took the call
CallDropped(c) ==
    /\ calls.pc[c] = "requested"
    /\ calls' = [calls EXCEPT !.pc[c] = "ended"]
    /\ UNCHANGED <<hostVars, stream, streamIO, dlv, http, boxes, pollLoop>>

NextCalls ==
    \/ \E c \in CallIds : CallRun(c)
    \/ \E c \in CallIds : CoreStart(c)
    \/ \E c \in CallIds : CoreEmit(c)
    \/ \E c \in CallIds : CoreEnd(c)
    \/ \E c \in CallIds : CallDropped(c)

SpecCalls == InitCalls /\ [][NextCalls]_vars

\* C12: at most one call of a sandbox is running at a time: the guest steps of
\* a call started while another one is in flight never interleave with the
\* steps of that other call.
C12_OneCallRunning ==
    /\ Cardinality({c \in CallIds : calls.pc[c] = "running"}) <= 1
    /\ \A i \in 1..Len(calls.log) :
          IF calls.log[i].what = "start"
          THEN i > 1 => calls.log[i - 1].what = "end"
          ELSE /\ i > 1
               /\ calls.log[i - 1].call = calls.log[i].call
               /\ calls.log[i - 1].what # "end"

C12_Witness ==
    /\ calls.overlap
    /\ \A c \in CallIds : calls.pc[c] = "ended" /\ calls.emits[c] = MaxCallEvents

\* ------------------------------------------------------------------ Stream
MaxItems == 3   \* payloads the producer tries to push
MaxCap == 2     \* largest capacity a Stream is created with
MaxEnds == 2    \* end() calls made on the Stream

\* _StreamCore(capacity), its producer about to push payload 1, its consumer
\* (the guest's _aiter_arg) about to read
InitStream ==
    /\ HostIdle
    /\ CallsIdle
    /\ CbIdle
    /\ RestIdle
    /\ \E c \in 1..MaxCap : stream = [cap |-> c, buf |-> <<>>, ended |-> FALSE]
    /\ streamIO = [next |-> 1, pend |-> 0, pushed |-> <<>>, results |-> <<>>,
                   ends |-> 0, cpc |-> "reading", got |-> <<>>]

StreamFrame == <<hostVars, calls, dlv, http, boxes, pollLoop>>

\* A payload joins the queue at the wrong end
StreamEnqueue_Front(buf, v) == <<v>> \o buf

StreamEnqueue(buf, v) == Append(buf, v)

\* A push that does not look at the ended flag
PushOutcome_IgnoresEnd(st, blocking) ==
    IF Len(st.buf) >= st.cap THEN (IF blocking THEN "wait" ELSE "full") ELSE "ok"

\* A push that does not look at the capacity
PushOutcome_IgnoresCap(st, blocking) == IF st.ended THEN "closed" ELSE "ok"

\* push_json(payload, blocking): what the call does with the Stream as it is
PushOutcome(st, blocking) ==
    IF st.ended THEN "closed"
    ELSE IF Len(st.buf) >= st.cap THEN (IF blocking THEN "wait" ELSE "full")
    ELSE "ok"

\* The Stream and the histories after a push of v that ended with `out`
Pushed(v, out, blocking) ==
    /\ stream' = IF out = "ok" THEN [stream EXCEPT !.buf = StreamEnqueue(@, v)]
                 ELSE stream
    /\ streamIO' =
          [streamIO EXCEPT
              !.next = IF streamIO.pend = 0 THEN @ + 1 ELSE @,
              !.pend = IF out = "wait" THEN v ELSE 0,
              !.pushed = IF out = "ok" THEN Append(@, v) ELSE @,
              !.results = IF out = "wait" THEN @
                          ELSE Append(@, [v |-> v, out |-> out, blocking |-> blocking,
                                          waited |-> streamIO.pend # 0,
                                          afterEnd |-> stream.ended])]

\* core.push_json(payload): the non-blocking push
PushNowait ==
    /\ streamIO.pend = 0
    /\ streamIO.next <= MaxItems
    /\ Pushed(streamIO.next, PushOutcome(stream, FALSE), FALSE)
    /\ UNCHANGED StreamFrame

\* await core.push_json_async(payload): the blocking push is called
PushBlocking ==
    /\ streamIO.pend = 0
    /\ streamIO.next <= MaxItems
    /\ Pushed(streamIO.next, PushOutcome(stream, TRUE), TRUE)
    /\ UNCHANGED StreamFrame

\* A waiting blocking push goes on once there is space or the Stream is ended
PushResume ==
    /\ streamIO.pend # 0
    /\ PushOutcome(stream, TRUE) # "wait"
    /\ Pushed(streamIO.pend, PushOutcome(stream, TRUE), TRUE)
    /\ UNCHANGED StreamFrame

\* core.end()
StreamEnd ==
    /\ streamIO.ends < MaxEnds
    /\ stream' = [stream EXCEPT !.ended = TRUE]
    /\ streamIO' = [streamIO EXCEPT !.ends = @ + 1]
    /\ UNCHANGED StreamFrame

\* _aiter_arg taking a poll handle for the end of the stream
AiterStep_PollEnds(ok, poll) == IF ~ok \/ poll THEN "break" ELSE "yield"

\* _aiter_arg: what it does with the (ok, result, poll) that args.read() gave
AiterStep(ok, poll) ==
    IF ~ok THEN "break" ELSE IF poll THEN "await" ELSE "yield"

\* args.read() on the Stream as it is: (ok, a result is there, a poll handle is there)
ArgRead(st) ==
    IF st.buf # <<>> THEN [ok |-> TRUE, poll |-> FALSE]
    ELSE IF st.ended THEN [ok |-> FALSE, poll |-> FALSE]
    ELSE [ok |-> TRUE, poll |-> TRUE]

\* One pass of _aiter_arg's loop
ConsumerRead ==
    /\ streamIO.cpc = "reading"
    /\ LET r == ArgRead(stream)
           step == AiterStep(r.ok, r.poll)
       IN IF step = "yield"
          THEN /\ stream' = [stream EXCEPT !.buf = Tail(@)]
               /\ streamIO' = [streamIO EXCEPT !.got = Append(@, Head(stream.buf))]
          ELSE /\ stream' = stream
               /\ streamIO' = [streamIO EXCEPT
                                  !.cpc = IF step = "break" THEN "done" ELSE "waiting"]
    /\ UNCHANGED StreamFrame

\* `await subscribe(poll)` is through: there is a payload, or the Stream is ended
ConsumerWake ==
    /\ streamIO.cpc = "waiting"
    /\ stream.buf # <<>> \/ stream.ended
    /\ streamIO' = [streamIO EXCEPT !.cpc = "reading"]
    /\ UNCHANGED <<StreamFrame, stream>>

NextStream ==
    \/ PushNowait
    \/ PushBlocking
    \/ PushResume
    \/ StreamEnd
    \/ ConsumerRead
    \/ ConsumerWake

SpecStream == InitStream /\ [][NextStream]_vars

\* Scheduling: a push that can go on does, and the consumer keeps reading
FairnessStream ==
    /\ WF_vars(PushResume)
    /\ WF_vars(ConsumerRead)
    /\ WF_vars(ConsumerWake)

FairSpecStream == InitStream /\ [][NextStream]_vars /\ FairnessStream

\* C13: whatever the capacity and whichever push the producer used, the single
\* consumer observes exactly the successfully pushed payloads, in push order,
\* and once the Stream is ended it terminates having seen all of them.
C13_ConsumerSeesPushed ==
    /\ [](streamIO.pushed = streamIO.got \o stream.buf)
    /\ [](streamIO.cpc = "done" =>
             stream.ended /\ stream.buf = <<>> /\ streamIO.got = streamIO.pushed)
    /\ (stream.ended ~> streamIO.cpc = "done")

C13_Witness ==
    /\ streamIO.cpc = "done"
    /\ Len(streamIO.got) = MaxItems
    /\ \E i, j \in 1..Len(streamIO.results) :
          streamIO.results[i].blocking /\ ~streamIO.results[j].blocking

\* C14: once end() was called, every later push, blocking or not, fails with
\* StreamClosed and enqueues nothing, and another end() changes nothing.
C14_ClosedAfterEnd ==
    /\ [](\A i \in 1..Len(streamIO.results) :
             streamIO.results[i].afterEnd => streamIO.results[i].out = "closed")
    /\ [][stream.ended =>
             /\ stream'.ended
             /\ streamIO'.pushed = streamIO.pushed
             /\ Len(stream'.buf) <= Len(stream.buf)
             /\ streamIO'.ends # streamIO.ends => stream' = stream]_vars

C14_Witness ==
    /\ streamIO.ends = MaxEnds
    /\ \E i, j \in 1..Len(streamIO.results) :
          /\ streamIO.results[i].afterEnd /\ streamIO.results[i].blocking
          /\ streamIO.results[j].afterEnd /\ ~streamIO.results[j].blocking

\* C15: a blocking push on a full Stream waits; it enqueues its payload once
\* there is space, or fails with StreamClosed once the Stream is ended; the
\* queue never holds more than the capacity, and the push does not stay blocked.
C15_BlockingPush ==
    /\ [](Len(stream.buf) <= stream.cap)
    /\ [][(streamIO.pend = 0 /\ streamIO'.pend # 0) =>
             Len(stream.buf) = stream.cap /\ ~stream.ended /\ stream' = stream]_vars
    /\ [][(streamIO.pend # 0 /\ streamIO'.pend = 0) =>
             LET r == streamIO'.results[Len(streamIO'.results)]
             IN /\ r.v = streamIO.pend
                /\ IF stream.ended
                   THEN r.out = "closed" /\ stream' = stream
                   ELSE r.out = "ok" /\ stream'.buf = Append(stream.buf, streamIO.pend)]_vars
    /\ ((streamIO.pend # 0 /\ (Len(stream.buf) < stream.cap \/ stream.ended))
           ~> streamIO.pend = 0)

C15_Witness ==
    /\ \E i, j \in 1..Len(streamIO.results) :
          /\ i < j
          /\ streamIO.results[i].waited /\ streamIO.results[i].out = "ok"
          /\ streamIO.results[j].waited /\ streamIO.results[j].out = "closed"
    /\ Len(streamIO.got) >= 1

\* C16: a non-blocking push either enqueues its payload or, with the Stream at
\* capacity, fails with StreamFull and leaves queue and ended flag as they were.
C16_NonBlockingPush ==
    [][(Len(streamIO'.results) > Len(streamIO.results)
          /\ ~streamIO'.results[Len(streamIO'.results)].blocking) =>
          LET r == streamIO'.results[Len(streamIO'.results)]
          IN CASE r.out = "ok" ->
                    /\ ~stream.ended /\ Len(stream.buf) < stream.cap
                    /\ stream' = [stream EXCEPT !.buf = Append(@, r.v)]
               [] r.out = "full" ->
                    /\ Len(stream.buf) = stream.cap
                    /\ stream' = stream
               [] OTHER -> stream.ended /\ stream' = stream]_vars

C16_Witness ==
    \E i, j \in 1..Len(streamIO.results) :
        /\ i < j
        /\ ~streamIO.results[i].blocking /\ streamIO.results[i].out = "full"
        /\ ~streamIO.results[j].blocking /\ streamIO.results[j].out = "ok"

\* ------------------------------------------------------- callback delivery
MaxCbPosts == 2   \* events the guest worker posts
MaxRegs == 1      \* set_callback calls with a callback

Loops == {"L1", "L2"}            \* event loops set_callback is called on
Worker == "worker"               \* the guest worker thread
Threads == Loops \cup {Worker}
StreamLoop == "L1"               \* the loop run_stream runs on
NoSlot == [sink |-> FALSE, reg |-> 0]

CbInvokeH(reg, ev) == [t |-> "Invoke", reg |-> reg, ev |-> ev]
CbPutH(ev) == [t |-> "Put", reg |-> 0, ev |-> ev]

\* Sandbox.__init__: no callback, no tracked task, nothing scheduled, not closed
InitCb ==
    /\ HostIdle
    /\ CallsIdle
    /\ StreamIdle
    /\ RestIdle
    /\ dlv = [regs |-> <<>>, slot |-> NoSlot, closed |-> "open", by |-> "none",
             ready |-> [t \in Threads |-> <<>>],
             posted |-> 0, delivered |-> <<>>, invoked |-> <<>>, queued |-> <<>>,
             handled |-> <<>>, tasks |-> [e \in 1..MaxCbPosts |-> "none"],
             tracked |-> {}, awaited |-> {}, returns |-> <<>>]

CbFrame == <<hostVars, calls, stream, streamIO, http, boxes, pollLoop>>

\* set_callback(callback) called on loop l: the closure captures l
CbSetCallback(l) ==
    /\ dlv.closed = "open"
    /\ Len(dlv.regs) < MaxRegs
    /\ dlv' = [dlv EXCEPT !.regs = Append(@, l),
                        !.slot = [sink |-> FALSE, reg |-> Len(dlv.regs) + 1]]
    /\ UNCHANGED CbFrame

\* run_stream installs its _dispatch in front of the dispatch registered so far
CbRunStream ==
    /\ dlv.closed = "open"
    /\ ~dlv.slot.sink
    /\ dlv.queued = <<>>
    /\ \A h \in 1..Len(dlv.ready[StreamLoop]) : dlv.ready[StreamLoop][h].t # "Put"
    /\ dlv' = [dlv EXCEPT !.slot.sink = TRUE]
    /\ UNCHANGED CbFrame

\* _dispatch calling the callback where it stands, on the posting thread
Marshal_Direct(rdy, l, h) == [rdy EXCEPT ![Worker] = Append(@, h)]

\* loop.call_soon_threadsafe(_invoke) on the loop captured at registration
Marshal(rdy, l, h) == [rdy EXCEPT ![l] = Append(@, h)]

\* The guest worker posts event n: a closed core drops it, an open one calls
\* the dispatch in its slot (run_stream's, which chains, or set_callback's)
CbPost ==
    /\ dlv.posted < MaxCbPosts
    /\ LET n == dlv.posted + 1
           r1 == IF dlv.slot.sink
                 THEN [dlv.ready EXCEPT ![StreamLoop] = Append(@, CbPutH(n))]
                 ELSE dlv.ready
           r2 == IF dlv.slot.reg # 0
                 THEN Marshal(r1, dlv.regs[dlv.slot.reg], CbInvokeH(dlv.slot.reg, n))
                 ELSE r1
       IN IF dlv.closed = "closed"
          THEN dlv' = [dlv EXCEPT !.posted = n]
          ELSE dlv' = [dlv EXCEPT !.posted = n,
                                !.ready = r2,
                                !.delivered = Append(@, [ev |-> n, slot |-> dlv.slot])]
    /\ UNCHANGED CbFrame

\* queue.put_nowait(event) runs on run_stream's loop
CbPut ==
    /\ dlv.ready[StreamLoop] # <<>>
    /\ Head(dlv.ready[StreamLoop]).t = "Put"
    /\ dlv' = [dlv EXCEPT !.ready[StreamLoop] = Tail(@),
                        !.queued = Append(@, Head(dlv.ready[StreamLoop]).ev)]
    /\ UNCHANGED CbFrame

\* _invoke's except branch dropping the exception
SyncRaise_Swallowed(c, ev) == c

\* _invoke's except branch: loop.call_exception_handler(context); return
SyncRaise(c, ev) == [c EXCEPT !.handled = Append(@, ev)]

\* _invoke runs on thread l: the callback returns, raises, or returns an
\* awaitable that becomes a tracked task
CbInvoke(l) ==
    /\ dlv.ready[l] # <<>>
    /\ Head(dlv.ready[l]).t = "Invoke"
    /\ \E out \in {"ok", "raise", "async"} :
          LET h == Head(dlv.ready[l])
              c1 == [dlv EXCEPT
                        !.ready[l] = Tail(@),
                        !.invoked = Append(@, [reg |-> h.reg, ev |-> h.ev, on |-> l,
                                               out |-> out, closed |-> dlv.closed,
                                               by |-> dlv.by])]
          IN dlv' = CASE out = "raise" -> SyncRaise(c1, h.ev)
                     [] out = "async" -> [c1 EXCEPT !.tasks[h.ev] = "pending",
                                                   !.tracked = @ \cup {h.ev}]
                     [] OTHER -> c1
    /\ UNCHANGED CbFrame

\* A callback task comes to its end, and _on_done runs: the task is no longer
\* tracked, and a failure goes to the loop's exception handler
CbTaskEnds(e) ==
    /\ dlv.tasks[e] \in {"pending", "cancelling"}
    /\ \E r \in {"done", "failed", "cancelled"} :
          /\ r = "cancelled" => dlv.tasks[e] = "cancelling"
          /\ dlv' = [dlv EXCEPT !.tasks[e] = r,
                              !.tracked = @ \ {e},
                              !.handled = IF r = "failed" THEN Append(@, e) ELSE @]
    /\ UNCHANGED CbFrame

\* _cancel_pending_callback_tasks: cancel each tracked task, clear the set
CancelPendingCallbackTasks(c) ==
    [c EXCEPT !.tasks = [e \in 1..MaxCbPosts |->
                            IF e \in c.tracked /\ @[e] = "pending" THEN "cancelling"
                            ELSE @[e]],
              !.tracked = {}]

\* The rest of close() and of aclose(): detach the dispatch, close the core
Detach(c, how) ==
    [c EXCEPT !.slot = NoSlot,
              !.closed = "closed",
              !.by = how,
              !.returns = Append(@, [how |-> how, tracked |-> c.tracked,
                                     awaited |-> c.awaited, tasks |-> c.tasks])]

\* close()
CbClose ==
    /\ dlv.closed = "open"
    /\ dlv' = Detach(CancelPendingCallbackTasks(dlv), "close")
    /\ UNCHANGED CbFrame

\* aclose() up to its await: without a pending task it goes straight through
CbAclose ==
    /\ dlv.closed = "open"
    /\ LET c1 == [CancelPendingCallbackTasks(dlv) EXCEPT !.awaited = dlv.tracked]
       IN IF dlv.tracked = {}
          THEN dlv' = Detach(c1, "aclose")
          ELSE dlv' = [c1 EXCEPT !.closed = "aclosing", !.by = "aclose"]
    /\ UNCHANGED CbFrame

\* aclose() after `await asyncio.gather(*pending, return_exceptions=True)`
CbAcloseResume ==
    /\ dlv.closed = "aclosing"
    /\ \A e \in dlv.awaited : dlv.tasks[e] \in {"done", "failed", "cancelled"}
    /\ dlv' = Detach(dlv, "aclose")
    /\ UNCHANGED CbFrame

NextCb ==
    \/ \E l \in Loops : CbSetCallback(l)
    \/ CbRunStream
    \/ CbPost
    \/ CbPut
    \/ \E l \in Threads : CbInvoke(l)
    \/ \E e \in 1..MaxCbPosts : CbTaskEnds(e)
    \/ CbClose
    \/ CbAclose
    \/ CbAcloseResume

SpecCb == InitCb /\ [][NextCb]_vars

\* C17: after close() has returned the callback is not invoked again: an event
\* posted after close is dropped, and a delivery scheduled before close does not
\* call the callback either.
C17_NoInvokeAfterClose ==
    \A i \in 1..Len(dlv.invoked) :
        ~(dlv.invoked[i].closed = "closed" /\ dlv.invoked[i].by = "close")

\* The part of C17 that the core alone carries: nothing posted after close() or
\* aclose() returned is dispatched
C17_PostAfterCloseDropped ==
    [][dlv.closed = "closed" =>
          /\ dlv'.delivered = dlv.delivered
          /\ \A l \in Threads : Len(dlv'.ready[l]) <= Len(dlv.ready[l])]_vars

Finished == {"done", "failed", "cancelled"}

\* C18: close() and aclose() cancel every tracked pending callback task,
\* aclose() returns only after every task it cancelled has finished, and when
\* either returns the set of tracked callback tasks is empty.
C18_TrackedEmptyAtReturn ==
    \A i \in 1..Len(dlv.returns) :
        /\ dlv.returns[i].tracked = {}
        /\ \A e \in dlv.returns[i].awaited : dlv.returns[i].tasks[e] \in Finished
        /\ \A e \in 1..MaxCbPosts : dlv.returns[i].tasks[e] # "pending"

\* The part of C18 that holds: close() leaves no tracked task, aclose() returns
\* with every task it cancelled finished, and both cancel what was tracked when
\* they were called
C18_CancelsAndAwaits ==
    /\ [](\A i \in 1..Len(dlv.returns) :
             /\ dlv.returns[i].how = "close" =>
                   /\ dlv.returns[i].tracked = {}
                   /\ \A e \in 1..MaxCbPosts : dlv.returns[i].tasks[e] # "pending"
             /\ \A e \in dlv.returns[i].awaited : dlv.returns[i].tasks[e] \in Finished)
    /\ [][(dlv.closed = "open" /\ dlv'.closed # "open") =>
             \A e \in dlv.tracked : dlv'.tasks[e] # "pending"]_vars

\* Event ev has a handle of kind t waiting on thread l
Scheduled(l, t, ev) ==
    \E h \in 1..Len(dlv.ready[l]) : dlv.ready[l][h].t = t /\ dlv.ready[l][h].ev = ev

\* C19: when a synchronous callback raises, the exception goes to the loop's
\* exception handler, nothing else changes (the run is not aborted), and every
\* event dispatched, earlier or later, still reaches the callback and run_stream.
C19_SyncRaiseHandled ==
    /\ [][(Len(dlv'.invoked) > Len(dlv.invoked)
             /\ dlv'.invoked[Len(dlv'.invoked)].out = "raise") =>
             LET r == dlv'.invoked[Len(dlv'.invoked)]
             IN /\ dlv'.handled = Append(dlv.handled, r.ev)
                /\ dlv'.ready = [dlv.ready EXCEPT ![r.on] = Tail(@)]
                /\ dlv'.slot = dlv.slot
                /\ dlv'.regs = dlv.regs
                /\ dlv'.closed = dlv.closed
                /\ dlv'.queued = dlv.queued
                /\ dlv'.tasks = dlv.tasks
                /\ dlv'.tracked = dlv.tracked]_vars
    /\ [](\A i \in 1..Len(dlv.delivered) :
             LET d == dlv.delivered[i]
             IN /\ d.slot.reg # 0 =>
                      \/ Scheduled(dlv.regs[d.slot.reg], "Invoke", d.ev)
                      \/ \E k \in 1..Len(dlv.invoked) :
                            dlv.invoked[k].ev = d.ev /\ dlv.invoked[k].reg = d.slot.reg
                /\ d.slot.sink =>
                      \/ Scheduled(StreamLoop, "Put", d.ev)
                      \/ \E k \in 1..Len(dlv.queued) : dlv.queued[k] = d.ev)

C19_Witness ==
    /\ dlv.closed = "open"
    /\ \E i, j \in 1..Len(dlv.invoked) :
          /\ i < j
          /\ dlv.invoked[i].out = "raise"
          /\ dlv.invoked[i].ev \in {dlv.handled[k] : k \in 1..Len(dlv.handled)}
          /\ dlv.invoked[j].ev > dlv.invoked[i].ev
          /\ dlv.invoked[j].out = "ok"
          /\ \E k \in 1..Len(dlv.queued) : dlv.queued[k] = dlv.invoked[j].ev

\* C20: the callback is invoked only on the loop captured when set_callback was
\* called, never on the guest worker thread that posts the event.
C20_InvokedOnCapturedLoop ==
    \A i \in 1..Len(dlv.invoked) :
        /\ dlv.invoked[i].on = dlv.regs[dlv.invoked[i].reg]
        /\ dlv.invoked[i].on # Worker

C20_Witness ==
    /\ dlv.queued # <<>>
    /\ \E i \in 1..Len(dlv.invoked) :
          dlv.invoked[i].on # StreamLoop /\ dlv.invoked[i].on \in Loops

\* ------------------------------------------------------------- HTTP bridge
MaxTimeout == 2   \* longest timeout configured, in ticks
MaxTicks == 3     \* ticks a handler is followed for
MaxChunks == 2    \* chunks of a streamed response body
MaxConfigures == 2  \* configure calls before the dispatch

\* The attribute _http_handler_timeout_seconds: absent, or holding None
\* (limit 0) or a duration in ticks
Unset == [exists |-> FALSE, limit |-> 0]
NoTimeout == [exists |-> TRUE, limit |-> 0]
Timeout(n) == [exists |-> TRUE, limit |-> n]

\* The timeout key of a configure call: not given, None, or a duration
NoKey == [key |-> FALSE, limit |-> 0]
TimeoutKeys == {NoKey} \cup {[key |-> TRUE, limit |-> n] : n \in 0..MaxTimeout}

\* One chunk or one body of bytes-like or of another type, with its content
Val(t, v) == [t |-> t, v |-> v]
BytesLike == {"bytes", "bytearray", "memoryview"}
ChunkValues == {Val("bytes", "a"), Val("bytearray", "b"), Val("str", "c")}
ChunkSeqs == UNION {[1..n -> ChunkValues] : n \in 0..MaxChunks}

\* What a handler can return: something that is no HttpResponse, or an
\* HttpResponse with status, headers and a body of any type
Bodies ==
    {[t |-> "None", v |-> "-", chunks |-> <<>>],
     [t |-> "str", v |-> "x", chunks |-> <<>>],
     [t |-> "list", v |-> "x", chunks |-> <<>>]}
    \cup {[t |-> k, v |-> "ok", chunks |-> <<>>] : k \in BytesLike}
    \cup {[t |-> "aiter", v |-> "-", chunks |-> c] : c \in ChunkSeqs}
HandlerReturnValues ==
    {[isResponse |-> FALSE, status |-> 0, headers |-> "-",
      body |-> [t |-> "None", v |-> "-", chunks |-> <<>>]]}
    \cup {[isResponse |-> TRUE, status |-> 201, headers |-> "h", body |-> b] : b \in Bodies}

Tuple(status, headers, mode, payload) ==
    [kind |-> "tuple", status |-> status, headers |-> headers, mode |-> mode,
     payload |-> payload, exc |-> "-"]
Error(exc) ==
    [kind |-> "error", status |-> 0, headers |-> "-", mode |-> "-", payload |-> "-",
     exc |-> exc]
NoOutcome == [kind |-> "none", status |-> 0, headers |-> "-", mode |-> "-",
              payload |-> "-", exc |-> "-"]

\* _normalize_http_response_body taking any body that is not None for bytes
NormalizeHttpResponseBody_AllBytes(body) ==
    IF body.t = "None" THEN [mode |-> "none", payload |-> "None"]
    ELSE [mode |-> "bytes", payload |-> body.v]

\* _normalize_http_response_body(body): (body_mode, body_payload), or TypeError
NormalizeHttpResponseBody(body) ==
    CASE body.t = "None" -> [mode |-> "none", payload |-> "None"]
      [] body.t \in BytesLike -> [mode |-> "bytes", payload |-> body.v]
      [] body.t = "aiter" -> [mode |-> "stream", payload |-> body.chunks]
      [] OTHER -> [mode |-> "TypeError", payload |-> "-"]

\* _dispatch after the handler returned `response`
DispatchResult(response) ==
    IF ~response.isResponse THEN Error("TypeError")
    ELSE LET n == NormalizeHttpResponseBody(response.body)
         IN IF n.mode = "TypeError" THEN Error("TypeError")
            ELSE Tuple(response.status, response.headers, n.mode, n.payload)

\* Sandbox.__init__ of a sandbox made by instantiate(config=None): configure
\* was not called, no dispatch has been made
InitHttp ==
    /\ HostIdle
    /\ CallsIdle
    /\ StreamIdle
    /\ CbIdle
    /\ BoxesIdle
    /\ PollIdle
    /\ http = [attr |-> Unset, keyed |-> FALSE, configures |-> 0,
               pc |-> "idle", handler |-> "none", deadline |-> 0, clock |-> 0,
               firedAt |-> 0, ret |-> NoOutcome, out |-> NoOutcome,
               bodyPc |-> "none", pos |-> 0, got |-> <<>>]

HttpFrame == <<hostVars, calls, stream, streamIO, dlv, boxes, pollLoop>>

\* configure(**kwargs): the attribute is written only when kwargs has "timeout"
HttpConfigure(t) ==
    /\ http.pc = "idle"
    /\ http.configures < MaxConfigures
    /\ http' = [http EXCEPT !.configures = @ + 1,
                            !.attr = IF t.key THEN Timeout(t.limit) ELSE @,
                            !.keyed = @ \/ t.key]
    /\ UNCHANGED HttpFrame

\* wait_for given a timeout one tick longer than the sandbox's
WaitForTimeout_Longer(timeout) == timeout + 1

\* asyncio.wait_for(handler(request), timeout=timeout): the duration waited for
WaitForTimeout(timeout) == timeout

\* _dispatch is called for a guest request: it reads the attribute and calls
\* the handler, directly or under wait_for
HttpDispatch ==
    /\ http.pc = "idle"
    /\ IF http.attr = Unset
       THEN http' = [http EXCEPT !.pc = "done", !.out = Error("AttributeError")]
       ELSE http' = [http EXCEPT
                        !.pc = "awaiting",
                        !.handler = "running",
                        !.deadline = IF http.attr = NoTimeout THEN 0
                                     ELSE WaitForTimeout(http.attr.limit)]
    /\ UNCHANGED HttpFrame

\* Time passes while the handler runs
HttpTick ==
    /\ http.handler = "running"
    /\ http.clock < MaxTicks
    /\ http' = [http EXCEPT !.clock = @ + 1]
    /\ UNCHANGED HttpFrame

\* The handler returns, and _dispatch checks and converts what it returned
HandlerReturns(v) ==
    /\ http.handler = "running"
    /\ http' = [http EXCEPT !.handler = "done",
                            !.pc = "done",
                            !.ret = v,
                            !.out = DispatchResult(v),
                            !.bodyPc = IF DispatchResult(v).mode = "stream"
                                       THEN "open" ELSE "none"]
    /\ UNCHANGED HttpFrame

\* The handler raises
HandlerRaises ==
    /\ http.handler = "running"
    /\ http' = [http EXCEPT !.handler = "failed", !.pc = "done",
                            !.out = Error("handler")]
    /\ UNCHANGED HttpFrame

\* wait_for's timer fires: the handler is cancelled, TimeoutError is raised
TimeoutFires ==
    /\ http.handler = "running"
    /\ http.deadline # 0
    /\ http.clock >= http.deadline
    /\ http' = [http EXCEPT !.handler = "cancelled", !.pc = "done",
                            !.firedAt = http.clock,
                            !.out = Error("TimeoutError")]
    /\ UNCHANGED HttpFrame

\* _stream_body with one chunk: the bytes it yields, or TypeError
StreamBodyChunk(chunk) == IF chunk.t \in BytesLike THEN chunk.v ELSE "TypeError"

\* The consumer of a "stream" payload asks _stream_body for the next chunk
BodyNext ==
    /\ http.bodyPc = "open"
    /\ IF http.pos = Len(http.out.payload)
       THEN http' = [http EXCEPT !.bodyPc = "exhausted"]
       ELSE LET c == StreamBodyChunk(http.out.payload[http.pos + 1])
            IN IF c = "TypeError"
               THEN http' = [http EXCEPT !.bodyPc = "TypeError"]
               ELSE http' = [http EXCEPT !.pos = @ + 1, !.got = Append(@, c)]
    /\ UNCHANGED HttpFrame

NextHttp ==
    \/ \E t \in TimeoutKeys : HttpConfigure(t)
    \/ HttpDispatch
    \/ HttpTick
    \/ \E v \in HandlerReturnValues : HandlerReturns(v)
    \/ HandlerRaises
    \/ TimeoutFires
    \/ BodyNext

SpecHttp == InitHttp /\ [][NextHttp]_vars

\* Scheduling: time passes, a due timer fires
FairnessHttp == WF_vars(HttpTick) /\ WF_vars(TimeoutFires)

FairSpecHttp == InitHttp /\ [][NextHttp]_vars /\ FairnessHttp

YieldedSoFar ==
    /\ http.pos <= Len(http.ret.body.chunks)
    /\ http.got = [i \in 1..http.pos |-> http.ret.body.chunks[i].v]
    /\ \A i \in 1..http.pos : http.ret.body.chunks[i].t \in BytesLike

\* C22: for a handler that returned an HttpResponse the dispatch returns
\* (status, headers, mode, payload) with mode "none" exactly for an absent body,
\* "bytes" exactly for a bytes-like one (same bytes), "stream" exactly for an
\* async iterable (same chunks in order, failing at the first chunk that is not
\* bytes-like); another body type or another return value is an error.
C22_ResponseShape ==
    http.handler = "done" =>
        LET v == http.ret
            o == http.out
        IN /\ ~v.isResponse => o = Error("TypeError")
           /\ v.isResponse =>
                 /\ o.kind = "tuple" <=> v.body.t \in {"None", "aiter"} \cup BytesLike
                 /\ o.kind # "tuple" => o = Error("TypeError")
                 /\ o.kind = "tuple" => o.status = v.status /\ o.headers = v.headers
                 /\ o.mode = "none" <=> v.body.t = "None"
                 /\ o.mode = "bytes" <=> v.body.t \in BytesLike
                 /\ o.mode = "bytes" => o.payload = v.body.v
                 /\ o.mode = "stream" <=> v.body.t = "aiter"
                 /\ o.mode = "stream" =>
                       /\ YieldedSoFar
                       /\ http.bodyPc = "exhausted" => http.pos = Len(v.body.chunks)
                       /\ http.bodyPc = "TypeError" =>
                             /\ http.pos < Len(v.body.chunks)
                             /\ v.body.chunks[http.pos + 1].t \notin BytesLike

C22_Witness ==
    /\ http.out.kind = "tuple"
    /\ http.out.mode = "stream"
    /\ http.bodyPc = "TypeError"
    /\ http.got = <<"a">>

\* C30: a dispatch on a sandbox whose configure was never given a timeout key
\* has no timeout: the handler is called and awaited without limit, and what
\* the dispatch gives is what the handler's return value converts to.
C30_NoTimeoutKeyNoLimit ==
    (~http.keyed /\ http.pc # "idle") =>
        /\ http.handler # "none"
        /\ http.deadline = 0
        /\ http.out.exc \notin {"AttributeError", "TimeoutError"}
        /\ http.handler = "done" => http.out = DispatchResult(http.ret)

\* What does hold: once configure was given a timeout key whose value is None,
\* the handler is awaited without limit
C30_NoneMeansNoLimit ==
    (http.keyed /\ http.attr = NoTimeout /\ http.pc # "idle") =>
        /\ http.handler # "none"
        /\ http.deadline = 0
        /\ http.out.exc \notin {"AttributeError", "TimeoutError"}
        /\ http.handler = "done" => http.out = DispatchResult(http.ret)

\* ---------------------------------------------------- default HTTP handler
\* Exceptions client.build_request and client.send raise on their own account
BuildErrors == {"InvalidURL", "TypeError"}
SendErrors == {"ConnectError", "ReadTimeout"}
\* Bodies of the upstream response: chunks of bytes
UpstreamBodies == UNION {[1..n -> {Val("bytes", "a"), Val("bytes", "b")}] : n \in 0..MaxChunks}

\* A sandbox configured with a timeout key, whose handler is _default_httpx_handler
InitDefault ==
    /\ HostIdle
    /\ CallsIdle
    /\ StreamIdle
    /\ CbIdle
    /\ BoxesIdle
    /\ PollIdle
    /\ \E n \in 0..MaxTimeout :
          http = [attr |-> Timeout(n), keyed |-> TRUE, configures |-> 1,
                  pc |-> "idle", handler |-> "none", deadline |-> 0, clock |-> 0,
                  firedAt |-> 0, ret |-> NoOutcome, out |-> NoOutcome,
                  bodyPc |-> "none", pos |-> 0, got |-> <<>>,
                  client |-> "none", hpc |-> "new", exc |-> "-"]

\* `except Exception`: CancelledError is a BaseException and is not caught
Caught(e) == e # "CancelledError"

\* Where the handler goes when e is raised inside its try block
AfterRaise(h, e) ==
    IF Caught(e) THEN [h EXCEPT !.hpc = "aclose", !.exc = e]
    ELSE [h EXCEPT !.hpc = "raised", !.exc = e,
                   !.handler = IF e = "CancelledError" THEN "cancelled" ELSE "failed"]

\* First step of the handler: httpx.AsyncClient(), client.build_request(...),
\* and the call of client.send, which suspends
DefaultStart ==
    /\ http.handler = "running"
    /\ http.hpc = "new"
    /\ \/ http' = [http EXCEPT !.client = "open", !.hpc = "send"]
       \/ \E e \in BuildErrors :
             http' = AfterRaise([http EXCEPT !.client = "open", !.hpc = "build"], e)
    /\ UNCHANGED HttpFrame

\* client.send returns the upstream response; the handler returns an
\* HttpResponse whose body streams it
DefaultSendReturns ==
    /\ http.handler = "running"
    /\ http.hpc = "send"
    /\ \E chunks \in UpstreamBodies :
          LET v == [isResponse |-> TRUE, status |-> 200, headers |-> "h",
                    body |-> [t |-> "aiter", v |-> "-", chunks |-> chunks]]
          IN http' = [http EXCEPT !.hpc = "returned", !.handler = "done", !.pc = "done",
                                  !.ret = v, !.out = DispatchResult(v),
                                  !.bodyPc = "open"]
    /\ UNCHANGED HttpFrame

\* client.send raises
DefaultSendRaises ==
    /\ http.handler = "running"
    /\ http.hpc = "send"
    /\ \E e \in SendErrors : http' = AfterRaise(http, e)
    /\ UNCHANGED HttpFrame

\* wait_for's timer fires while the handler is suspended: CancelledError is
\* raised where the handler awaits, and the dispatch ends in TimeoutError
DefaultTimeout ==
    /\ http.handler = "running"
    /\ http.deadline # 0
    /\ http.clock >= http.deadline
    /\ LET h == [http EXCEPT !.pc = "done", !.firedAt = http.clock,
                             !.out = Error("TimeoutError"), !.handler = "cancelled"]
       IN CASE http.hpc = "send" ->
                  http' = [AfterRaise(h, "CancelledError") EXCEPT !.pc = "done",
                                                                  !.handler = "cancelled"]
            [] http.hpc = "aclose" ->
                  http' = [h EXCEPT !.hpc = "raised", !.exc = "CancelledError in aclose"]
            [] OTHER -> http' = [h EXCEPT !.hpc = "never run"]
    /\ UNCHANGED HttpFrame

\* The except clause: `await client.aclose()` is through, then `raise`
DefaultExcept ==
    /\ http.hpc = "aclose"
    /\ http' = [http EXCEPT !.client = "closed", !.hpc = "raised",
                            !.handler = IF @ = "cancelled" THEN @ ELSE "failed",
                            !.pc = "done",
                            !.out = IF http.handler = "cancelled" THEN @
                                    ELSE Error("handler")]
    /\ UNCHANGED HttpFrame

\* _stream_body's finally, when the body was read to its end
DefaultBodyFinally ==
    /\ http.bodyPc = "exhausted"
    /\ http.client = "open"
    /\ http' = [http EXCEPT !.client = "closed"]
    /\ UNCHANGED HttpFrame

NextDefault ==
    \/ HttpDispatch
    \/ HttpTick
    \/ DefaultStart
    \/ DefaultSendReturns
    \/ DefaultSendRaises
    \/ DefaultTimeout
    \/ DefaultExcept
    \/ BodyNext
    \/ DefaultBodyFinally

SpecDefault == InitDefault /\ [][NextDefault]_vars

\* C23: on any exception raised while building or sending the outbound
\* request, the client is released before the error leaves the handler.
C23_ClientReleasedOnException ==
    (http.hpc = "raised" /\ http.exc # "CancelledError in aclose") =>
        http.client = "closed"

\* What does hold: for every exception that is an Exception the client is
\* released before the handler raises
C23_ReleasedOnError ==
    (http.hpc = "raised" /\ http.exc \in BuildErrors \cup SendErrors) =>
        http.client = "closed"

\* ------------------------------------------------- timeout canonicalization
\* A float is counted in quarters of a millisecond when it stands for seconds
\* times 1000, so that ceil has something to round
Quarter == 4
MaxQ == 104              \* largest finite timeout given, in quarter milliseconds
MaxFiniteProduct == 100  \* largest one whose product with 1000 is still finite

\* The values configure(timeout=...) is called with
TimeoutValues ==
    {[t |-> k, q |-> 0] : k \in {"None", "bool", "str", "nan", "inf", "-inf"}}
    \cup {[t |-> "float", q |-> q] : q \in (0 - 3)..MaxQ}

Inf == [t |-> "inf", q |-> 0]

\* timeout * 1000 in floating point: a product beyond the largest float is inf
FloatMul1000(x) == IF x.q > MaxFiniteProduct THEN Inf ELSE x

\* math.ceil of a float: an integer, or OverflowError for an infinity
MathCeil(x) ==
    IF x.t = "float" THEN [exc |-> "-", n |-> (x.q + Quarter - 1) \div Quarter]
    ELSE [exc |-> "OverflowError", n |-> 0]

Stored(ms) == [exc |-> "-", none |-> FALSE, ms |-> ms]
Raises(exc) == [exc |-> exc, none |-> FALSE, ms |-> 0]

\* _timeout_seconds_to_ms(value)
TimeoutSecondsToMs(value) ==
    CASE value.t = "None" -> [exc |-> "-", none |-> TRUE, ms |-> 0]
      [] value.t \in {"bool", "str"} -> Raises("TypeError")
      [] value.t \in {"nan", "inf", "-inf"} -> Raises("ValueError")
      [] value.q <= 0 -> Raises("ValueError")
      [] OTHER ->
            LET c == MathCeil(FloatMul1000(value))
            IN IF c.exc # "-" THEN Raises(c.exc)
               ELSE IF c.n <= 0 THEN Raises("ValueError")
               ELSE Stored(c.n)

\* configure(timeout=value) is called on a sandbox
InitTimeout ==
    /\ HostIdle
    /\ CallsIdle
    /\ StreamIdle
    /\ CbIdle
    /\ BoxesIdle
    /\ PollIdle
    /\ \E v \in TimeoutValues :
          http = [pc |-> "called", value |-> v, conv |-> Raises("-"),
                  attr |-> Unset, patch |-> Raises("-")]

\* configure: patch["timeout_ms"] = _timeout_seconds_to_ms(patch.pop("timeout")),
\* and the attribute the HTTP dispatch reads
ConfigureConvert ==
    /\ http.pc = "called"
    /\ LET r == TimeoutSecondsToMs(http.value)
       IN http' = [http EXCEPT
                      !.conv = r,
                      !.pc = IF r.exc = "-" THEN "converted" ELSE "raised",
                      !.attr = IF r.exc # "-" THEN @
                               ELSE IF r.none THEN NoTimeout ELSE Timeout(r.ms)]
    /\ UNCHANGED HttpFrame

\* _configure_core(self._core, patch)
ConfigureStore ==
    /\ http.pc = "converted"
    /\ http' = [http EXCEPT !.pc = "stored", !.patch = http.conv]
    /\ UNCHANGED HttpFrame

NextTimeout == ConfigureConvert \/ ConfigureStore

SpecTimeout == InitTimeout /\ [][NextTimeout]_vars

\* The least integer n with n >= q / Quarter
IsCeil(n, q) == n * Quarter >= q /\ (n - 1) * Quarter < q

\* C24: for any t > 0 with ceil(t*1000) >= 1, configure stores exactly
\* ceil(t*1000) milliseconds, an integer >= 1; for any non-finite or
\* non-positive t it fails with an invalid-argument error.
C24_TimeoutCanonical ==
    http.pc \in {"stored", "raised"} =>
        LET v == http.value
        IN /\ (v.t = "float" /\ v.q > 0) =>
                 /\ http.pc = "stored"
                 /\ ~http.patch.none
                 /\ http.patch.ms >= 1
                 /\ IsCeil(http.patch.ms, v.q)
           /\ (v.t \in {"nan", "inf", "-inf"} \/ (v.t = "float" /\ v.q <= 0)) =>
                 http.pc = "raised" /\ http.conv.exc \in {"ValueError", "TypeError"}

\* What does hold: the same, for every t whose product with 1000 is finite
C24_CanonicalWhileFinite ==
    http.pc \in {"stored", "raised"} =>
        LET v == http.value
        IN /\ (v.t = "float" /\ v.q > 0 /\ v.q <= MaxFiniteProduct) =>
                 /\ http.pc = "stored"
                 /\ ~http.patch.none
                 /\ http.patch.ms >= 1
                 /\ IsCeil(http.patch.ms, v.q)
           /\ (v.t \in {"nan", "inf", "-inf"} \/ (v.t = "float" /\ v.q <= 0)) =>
                 http.pc = "raised" /\ http.conv.exc \in {"ValueError", "TypeError"}
           /\ http.pc = "stored" /\ ~http.patch.none => http.patch.ms >= 1

\* ------------------------------------------- two Sandboxes of one Context
MaxBoxEvents == 1   \* events a guest emits before it returns

BoxIds == {1, 2}
\* Raw kinds a guest emits while it runs; its return is posted as end_json
BoxKinds == {"result_json", "stdout", "log"}
\* Data of the n-th event of sandbox s's guest
BoxData(s, n) == "box" \o ToString(s) \o "." \o ToString(n)

BoxPutH(q, ev) == [t |-> "Put", to |-> q, ev |-> ev]
BoxInvokeH(c, ev) == [t |-> "Invoke", to |-> c, ev |-> ev]

\* Context.instantiate twice: two Sandboxes, each with its own core, on one loop
InitBoxes ==
    /\ HostIdle
    /\ CallsIdle
    /\ StreamIdle
    /\ CbIdle
    /\ HttpIdle
    /\ PollIdle
    /\ \E cbs \in [BoxIds -> BOOLEAN] :
          boxes = [ready |-> <<>>,
                   overlap |-> FALSE,
                   sb |-> [s \in BoxIds |->
                             [pc |-> "idle", guest |-> "idle", hasCb |-> cbs[s],
                              posted |-> <<>>, queue |-> <<>>, yielded |-> <<>>,
                              seen |-> <<>>]]]

BoxFrame == <<hostVars, calls, stream, streamIO, dlv, http, pollLoop>>

\* One queue that every run_stream call puts into
QueueOf_Shared(s) == 1

\* run_stream's `queue`: a local of the call on sandbox s
QueueOf(s) == s

\* sandbox s's core posts (kind, data): run_stream's _dispatch queues the
\* Event and chains to the dispatch set_callback made, which schedules _invoke
BoxDispatch(s, kind, data) ==
    <<BoxPutH(QueueOf(s), MkEvent(kind, data))>>
        \o (IF boxes.sb[s].hasCb THEN <<BoxInvokeH(s, MkEvent(kind, data))>> ELSE <<>>)

\* run_stream on sandbox s: its _dispatch is installed and the guest call starts
BoxRunStream(s) ==
    /\ boxes.sb[s].pc = "idle"
    /\ boxes' = [boxes EXCEPT
                    !.sb[s].pc = "streaming",
                    !.sb[s].guest = "running",
                    !.overlap = @ \/ \E o \in BoxIds \ {s} : boxes.sb[o].guest = "running"]
    /\ UNCHANGED BoxFrame

\* The guest of sandbox s emits an event from its worker thread
BoxEmit(s, kind) ==
    /\ boxes.sb[s].guest = "running"
    /\ Len(boxes.sb[s].posted) < MaxBoxEvents
    /\ LET data == BoxData(s, Len(boxes.sb[s].posted) + 1)
       IN boxes' = [boxes EXCEPT
                       !.sb[s].posted = Append(@, [kind |-> kind, data |-> data]),
                       !.ready = @ \o BoxDispatch(s, kind, data)]
    /\ UNCHANGED BoxFrame

\* The guest of sandbox s returns: its value is posted as end_json
BoxReturn(s) ==
    /\ boxes.sb[s].guest = "running"
    /\ LET data == BoxData(s, Len(boxes.sb[s].posted) + 1)
       IN boxes' = [boxes EXCEPT
                       !.sb[s].guest = "returned",
                       !.sb[s].posted = Append(@, [kind |-> "end_json", data |-> data]),
                       !.ready = @ \o BoxDispatch(s, "end_json", data)]
    /\ UNCHANGED BoxFrame

\* The loop runs its next handle: queue.put_nowait(event) or _invoke
BoxHandle ==
    /\ boxes.ready # <<>>
    /\ LET h == Head(boxes.ready)
       IN IF h.t = "Put"
          THEN boxes' = [boxes EXCEPT !.ready = Tail(@),
                                      !.sb[h.to].queue = Append(@, h.ev)]
          ELSE boxes' = [boxes EXCEPT !.ready = Tail(@),
                                      !.sb[h.to].seen = Append(@, h.ev)]
    /\ UNCHANGED BoxFrame

\* run_stream on sandbox s yields the next queued event
BoxYield(s) ==
    /\ boxes.sb[s].pc = "streaming"
    /\ boxes.sb[s].queue # <<>>
    /\ boxes' = [boxes EXCEPT !.sb[s].queue = Tail(@),
                              !.sb[s].yielded = Append(@, Head(boxes.sb[s].queue))]
    /\ UNCHANGED BoxFrame

\* run_stream on sandbox s finishes: the run is over and its queue is drained
BoxFinish(s) ==
    /\ boxes.sb[s].pc = "streaming"
    /\ boxes.sb[s].guest = "returned"
    /\ boxes.sb[s].queue = <<>>
    /\ \A i \in 1..Len(boxes.ready) :
          ~(boxes.ready[i].t = "Put" /\ boxes.ready[i].to = QueueOf(s))
    /\ boxes' = [boxes EXCEPT !.sb[s].pc = "done"]
    /\ UNCHANGED BoxFrame

NextBoxes ==
    \/ \E s \in BoxIds : BoxRunStream(s)
    \/ \E s \in BoxIds, k \in BoxKinds : BoxEmit(s, k)
    \/ \E s \in BoxIds : BoxReturn(s)
    \/ BoxHandle
    \/ \E s \in BoxIds : BoxYield(s)
    \/ \E s \in BoxIds : BoxFinish(s)

SpecBoxes == InitBoxes /\ [][NextBoxes]_vars

\* The event the host is to make of a raw (kind, data)
Rewritten(raw, ev) ==
    /\ ev.data = raw.data
    /\ ev.kind = IF raw.kind = "result_json" THEN "result"
                 ELSE IF raw.kind = "end_json" THEN "end"
                 ELSE raw.kind

\* C25: result_json and end_json reach the host's consumers as result and end,
\* every other kind unchanged, for the events given to a callback as for those
\* yielded by run_stream.
C25_KindsRewritten ==
    \A s \in BoxIds :
        LET b == boxes.sb[s]
        IN /\ Len(b.yielded) <= Len(b.posted)
           /\ Len(b.seen) <= Len(b.posted)
           /\ \A i \in 1..Len(b.yielded) : Rewritten(b.posted[i], b.yielded[i])
           /\ \A i \in 1..Len(b.seen) : Rewritten(b.posted[i], b.seen[i])

C25_Witness ==
    \E s \in BoxIds :
        LET b == boxes.sb[s]
        IN /\ Len(b.yielded) = 2 /\ Len(b.seen) = 2
           /\ b.posted[1].kind = "result_json" /\ b.yielded[1].kind = "result"
           /\ b.posted[2].kind = "end_json" /\ b.seen[2].kind = "end"
           /\ \E o \in BoxIds :
                 /\ Len(boxes.sb[o].yielded) >= 1
                 /\ boxes.sb[o].posted[1].kind = "log"
                 /\ boxes.sb[o].yielded[1].kind = "log"

\* Data of the events in a sequence
DataIn(evs) == {evs[i].data : i \in 1..Len(evs)}

\* C26: two Sandboxes of one Context can have runs in flight together, and each
\* run's events and final value reach only that sandbox's own run_stream caller
\* and callback, all of them once the run_stream is done.
C26_SandboxesIndependent ==
    \A s \in BoxIds :
        LET b == boxes.sb[s]
            own == DataIn(b.posted)
        IN /\ DataIn(b.yielded) \cup DataIn(b.queue) \cup DataIn(b.seen) \subseteq own
           /\ \A o \in BoxIds \ {s} :
                 (DataIn(b.yielded) \cup DataIn(b.seen)) \cap DataIn(boxes.sb[o].posted) = {}
           /\ b.pc = "done" => DataIn(b.yielded) = own
           /\ ~b.hasCb => b.seen = <<>>

C26_Witness ==
    /\ boxes.overlap
    /\ \A s \in BoxIds :
          /\ boxes.sb[s].pc = "done"
          /\ boxes.sb[s].yielded[Len(boxes.sb[s].yielded)].kind = "end"
          /\ Len(boxes.sb[s].seen) = MaxBoxEvents + 1

\* ------------------------------------------ StreamArg.from_iterable, no loop
NoName == "<None>"             \* name is None
Names == {NoName, "n"}         \* the name argument
NoTask == "<None>"             \* producer_task is None

\* _to_json(item) for the items 1, 2, ...: their JSON text
ToJson(item) == ToString(item)

\* from_iterable(values, name=name, capacity=capacity) is called with no
\* running loop; values has n items, the items 1..n
InitFromIterable ==
    /\ HostIdle
    /\ CallsIdle
    /\ CbIdle
    /\ RestIdle
    /\ stream = [cap |-> 0, buf |-> <<>>, ended |-> FALSE]
    /\ \E n \in 0..MaxItems, c \in 0..MaxCap, nm \in Names :
          streamIO = [pc |-> "called", n |-> n, capacity |-> c, nameArg |-> nm,
                      i |-> 0, exc |-> "-", name |-> "-", task |-> "-",
                      cpc |-> "reading", got |-> <<>>]

\* The Stream made with the capacity that was asked for, or 1
FromIterableCapacity_Requested(capacity, n) == IF capacity >= 1 THEN capacity ELSE 1

\* max(capacity, len(buffered), 1)
FromIterableCapacity(capacity, n) ==
    IF capacity >= n /\ capacity >= 1 THEN capacity
    ELSE IF n >= 1 THEN n ELSE 1

\* buffered = list(values); core = _StreamCore(max(capacity, len(buffered), 1))
FromIterableCreate ==
    /\ streamIO.pc = "called"
    /\ stream' = [stream EXCEPT
                     !.cap = FromIterableCapacity(streamIO.capacity, streamIO.n)]
    /\ streamIO' = [streamIO EXCEPT !.pc = "pushing"]
    /\ UNCHANGED StreamFrame

\* for item in buffered: core.push_json(_to_json(item))
FromIterablePush ==
    /\ streamIO.pc = "pushing"
    /\ streamIO.i < streamIO.n
    /\ LET out == PushOutcome(stream, FALSE)
       IN IF out = "ok"
          THEN /\ stream' = [stream EXCEPT !.buf = StreamEnqueue(@, ToJson(streamIO.i + 1))]
               /\ streamIO' = [streamIO EXCEPT !.i = @ + 1]
          ELSE /\ stream' = stream
               /\ streamIO' = [streamIO EXCEPT !.pc = "raised", !.exc = out]
    /\ UNCHANGED StreamFrame

\* core.end(); return cls(core, name=name)
FromIterableReturn ==
    /\ streamIO.pc = "pushing"
    /\ streamIO.i = streamIO.n
    /\ stream' = [stream EXCEPT !.ended = TRUE]
    /\ streamIO' = [streamIO EXCEPT !.pc = "returned", !.name = streamIO.nameArg,
                                    !.task = NoTask]
    /\ UNCHANGED StreamFrame

\* The StreamArg is passed to a run, and the guest reads it
FromIterableRead ==
    /\ streamIO.pc = "returned"
    /\ ConsumerRead

NextFromIterable ==
    \/ FromIterableCreate
    \/ FromIterablePush
    \/ FromIterableReturn
    \/ FromIterableRead

SpecFromIterable == InitFromIterable /\ [][NextFromIterable]_vars

\* The JSON texts of the items 1..n, in order
ItemsJson(n) == [k \in 1..n |-> ToJson(k)]

\* What from_iterable leaves in the Stream, whatever the name
FromIterableFilled ==
    /\ streamIO.pc # "raised"
    /\ streamIO.pc = "returned" =>
          /\ streamIO.task = NoTask
          /\ stream.ended
          /\ streamIO.got \o stream.buf = ItemsJson(streamIO.n)
          /\ streamIO.cpc = "done" => streamIO.got = ItemsJson(streamIO.n)

\* C27 as stated: the StreamArg from_iterable returns without a running loop has
\* no name and no producer task, its stream holds every item in order and is
\* ended, and StreamFull is never raised.
C27_FromIterableNoName ==
    /\ FromIterableFilled
    /\ streamIO.pc = "returned" => streamIO.name = NoName

\* C27 amended: the StreamArg has the name from_iterable was given (none unless
\* one is passed) and no producer task, its stream holds every item in order
\* and is ended, and StreamFull is never raised, even with more items than the
\* capacity asked for.
C27_FromIterable ==
    /\ FromIterableFilled
    /\ streamIO.pc = "returned" => streamIO.name = streamIO.nameArg

C27_Witness ==
    /\ streamIO.pc = "returned"
    /\ streamIO.n = MaxItems
    /\ streamIO.capacity = 1
    /\ streamIO.nameArg = NoName
    /\ streamIO.cpc = "done"

\* ------------------------------------------------ set_callback in a run_stream
\* C28: a set_callback call made while run_stream is active does not cut
\* run_stream off: when run_stream is over it has yielded every event the guest
\* emitted during it, those after the swap and the end event included.
C28_SwapKeepsStream ==
    (counts.swapIn /\ callerPc \in {"returned", "raised"} /\ counts.posts = 0) =>
        yielded = EventsOf(StreamLog)

\* What does hold after a swap: run_stream yields, in order, a prefix of what
\* the guest emitted during it
C28_PrefixAfterSwap ==
    counts.swapIn => IsPrefix(yielded, EventsOf(StreamLog))

\* ------------------------------------------- failure before the guest call
\* C29: when run/run_stream fails before the guest call starts (an argument
\* cannot be encoded, or the core rejects the call), every producer task of the
\* StreamArgs in args has been cancelled, or is over, when the caller gets the
\* failure.
C29_ProducersCancelledOnEarlyFailure ==
    (runExc = "encode" /\ callerPc = "raised") =>
        \A p \in Attached(prod) : prod[p].cancelReq \/ prod[p].st \in ProdTerminal

\* What does hold: such a failure reaches the caller with no guest call made
C29_NoGuestCall ==
    runExc = "encode" => opFut = "none" /\ guestPc # "running"

\* ------------------------------------------------------- Sandbox.configure
\* The timeout key of a configure call: not given, or one of these values
ConfigureTimeouts ==
    {[t |-> k, q |-> 0] : k \in {"None", "str", "nan"}}
    \cup {[t |-> "float", q |-> q] : q \in {0 - 1, 3, 4, 5}}
AbsentTimeout == [t |-> "absent", q |-> 0]

\* The mounts key: not given, None, a list of MountConfig, something that is
\* no list, or a list with an entry that is no MountConfig
MountsValues == {"absent", "None", "list", "not a list", "bad entry"}

\* _normalize_mounts(mounts): None, the encoded list, or TypeError
NormalizeMounts(mounts) ==
    CASE mounts = "None" -> [exc |-> "-", v |-> "None"]
      [] mounts = "not a list" -> [exc |-> "TypeError", v |-> "-"]
      [] mounts = "bad entry" -> [exc |-> "TypeError", v |-> "-"]
      [] OTHER -> [exc |-> "-", v |-> "encoded"]

\* The configuration the core holds: its timeout and its mounts
CoreUnconfigured == [timeout |-> Unset, mounts |-> "unset"]

\* _configure_core(core, patch): configure_json is called only for a patch
\* that is not empty; the core takes the keys of the patch, or rejects it
ConfigureCore(core, hasTimeout, timeout, hasMounts, mounts, accepts) ==
    IF ~(hasTimeout \/ hasMounts) THEN [exc |-> "-", core |-> core]
    ELSE IF ~accepts THEN [exc |-> "core", core |-> core]
    ELSE [exc |-> "-",
          core |-> [timeout |-> IF hasTimeout THEN timeout ELSE core.timeout,
                    mounts |-> IF hasMounts THEN mounts ELSE core.mounts]]

\* Sandbox.configure(**kwargs), statement by statement: what the sandbox is
\* after the call, and the exception the call ended with
ConfigureOutcome(sb, timeout, mounts, accepts) ==
    LET hasTimeout == timeout # AbsentTimeout
        hasMounts == mounts # "absent"
        conv == IF hasTimeout THEN TimeoutSecondsToMs(timeout) ELSE Raises("-")
        ms == IF conv.none THEN NoTimeout ELSE Timeout(conv.ms)
        attr1 == IF hasTimeout THEN ms ELSE sb.attr
        norm == IF hasMounts THEN NormalizeMounts(mounts) ELSE [exc |-> "-", v |-> "-"]
        stored == ConfigureCore(sb.core, hasTimeout, ms, hasMounts, norm.v, accepts)
    IN IF hasTimeout /\ conv.exc # "-"
       THEN [attr |-> sb.attr, core |-> sb.core, exc |-> conv.exc]
       ELSE IF norm.exc # "-"
       THEN [attr |-> attr1, core |-> sb.core, exc |-> norm.exc]
       ELSE [attr |-> attr1, core |-> stored.core, exc |-> stored.exc]

\* A sandbox as Sandbox.__init__ leaves it
InitConfigure ==
    /\ HostIdle
    /\ CallsIdle
    /\ StreamIdle
    /\ CbIdle
    /\ BoxesIdle
    /\ PollIdle
    /\ http = [attr |-> Unset, core |-> CoreUnconfigured, configures |-> 0,
               exc |-> "-", timeout |-> AbsentTimeout, mounts |-> "absent",
               before |-> [attr |-> Unset, core |-> CoreUnconfigured]]

\* One call of configure, with any timeout, any mounts, and a core that
\* takes the patch or rejects it
Configure ==
    /\ http.configures < MaxConfigures
    /\ \E timeout \in ConfigureTimeouts \cup {AbsentTimeout}, mounts \in MountsValues,
          accepts \in BOOLEAN :
          LET o == ConfigureOutcome(http, timeout, mounts, accepts)
          IN http' = [attr |-> o.attr, core |-> o.core,
                      configures |-> http.configures + 1,
                      exc |-> o.exc, timeout |-> timeout, mounts |-> mounts,
                      before |-> [attr |-> http.attr, core |-> http.core]]
    /\ UNCHANGED HttpFrame

NextConfigure == Configure

SpecConfigure == InitConfigure /\ [][NextConfigure]_vars

\* C31: configure is all-or-nothing: when it raises (invalid timeout, invalid
\* mounts, or the core rejecting the patch), neither the core's configuration
\* nor the timeout used for the HTTP handler dispatch has changed.
C31_ConfigureAllOrNothing ==
    http.exc # "-" =>
        /\ http.core = http.before.core
        /\ http.attr = http.before.attr

\* What does hold: a call that raises leaves the core's configuration as it
\* was, and one that raises for its timeout leaves the dispatch timeout too
C31_CoreKeptOnRaise ==
    http.exc # "-" =>
        /\ http.core = http.before.core
        /\ (TimeoutSecondsToMs(http.timeout).exc # "-" /\ http.timeout # AbsentTimeout)
              => http.attr = http.before.attr

\* ------------------------------------------ StreamArg.from_async_iterable
\* Positions of the producer task running _produce: created and not yet
\* stepped, between two items, suspended in push_json_async, or over
ProduceLive == {"created", "iterating", "pushing"}
ProduceTerminal == {"done", "failed", "cancelled"}
\* Positions of _run_operation for a call that has the StreamArg in its args
RunOpTerminal == {"ok", "failed"}

\* from_async_iterable(values, capacity=c) returned: the Stream is made and
\* the producer task created; the caller has not yet called run
InitProduce ==
    /\ HostIdle
    /\ CallsIdle
    /\ CbIdle
    /\ RestIdle
    /\ \E c \in 1..MaxCap : stream = [cap |-> c, buf |-> <<>>, ended |-> FALSE]
    /\ \E n \in 0..MaxItems :
          streamIO = [items |-> n, next |-> 1, ppc |-> "created", cancelReq |-> FALSE,
                      why |-> "-", pushed |-> <<>>, cpc |-> "idle", got |-> <<>>,
                      gpc |-> "none", rpc |-> "none"]

\* _produce leaves its try block: `finally: core.end()`, and the task is over
ProduceEnds(st, why) ==
    /\ stream' = [stream EXCEPT !.ended = TRUE]
    /\ streamIO' = [streamIO EXCEPT !.ppc = st, !.why = why, !.cancelReq = FALSE]

\* A task cancelled before its first step never enters its coroutine: the
\* coroutine is closed unstarted and no finally clause of it runs
ProduceCancelledUnstarted ==
    /\ streamIO.ppc = "created"
    /\ streamIO.cancelReq
    /\ streamIO' = [streamIO EXCEPT !.ppc = "cancelled", !.why = "unstarted",
                                    !.cancelReq = FALSE]
    /\ UNCHANGED <<StreamFrame, stream>>

\* CancelledError is thrown into _produce where it is suspended
ProduceCancelled ==
    /\ streamIO.ppc \in {"iterating", "pushing"}
    /\ streamIO.cancelReq
    /\ ProduceEnds("cancelled", "cancelled")
    /\ UNCHANGED StreamFrame

\* `async for item in values`: the source is exhausted, or it raises, or
\* _to_json(item) raises, or the item is pushed with push_json_async
ProduceItem ==
    /\ streamIO.ppc \in {"created", "iterating"}
    /\ ~streamIO.cancelReq
    /\ IF streamIO.next > streamIO.items
       THEN ProduceEnds("done", "exhausted")
       ELSE \/ ProduceEnds("failed", "source raised")
            \/ ProduceEnds("failed", "not serializable")
            \/ LET out == PushOutcome(stream, TRUE)
               IN CASE out = "closed" -> ProduceEnds("failed", "StreamClosed")
                    [] out = "wait" ->
                          /\ streamIO' = [streamIO EXCEPT !.ppc = "pushing"]
                          /\ stream' = stream
                    [] OTHER ->
                          /\ stream' = [stream EXCEPT
                                           !.buf = StreamEnqueue(@, streamIO.next)]
                          /\ streamIO' = [streamIO EXCEPT
                                             !.ppc = "iterating", !.next = @ + 1,
                                             !.pushed = Append(@, streamIO.next)]
    /\ UNCHANGED StreamFrame

\* The push that waited goes on: there is space now
ProducePushResume ==
    /\ streamIO.ppc = "pushing"
    /\ ~streamIO.cancelReq
    /\ PushOutcome(stream, TRUE) = "ok"
    /\ stream' = [stream EXCEPT !.buf = StreamEnqueue(@, streamIO.next)]
    /\ streamIO' = [streamIO EXCEPT !.ppc = "iterating", !.next = @ + 1,
                                    !.pushed = Append(@, streamIO.next)]
    /\ UNCHANGED StreamFrame

\* stream_arg.producer_task.cancel(), called by the owner of the StreamArg
ProducerTaskCancel ==
    /\ streamIO.ppc \in ProduceLive
    /\ ~streamIO.cancelReq
    /\ streamIO.rpc = "none"
    /\ streamIO' = [streamIO EXCEPT !.cancelReq = TRUE]
    /\ UNCHANGED <<StreamFrame, stream>>

\* _run_operation: _encode_args, core.run(name, encoded_args), `await operation`;
\* the guest starts to iterate over the argument
ProduceRunStart ==
    /\ streamIO.rpc = "none"
    /\ streamIO' = [streamIO EXCEPT !.rpc = "awaitOp", !.gpc = "running",
                                    !.cpc = "reading"]
    /\ UNCHANGED <<StreamFrame, stream>>

\* The guest takes a payload, or waits for one, while its call runs
ProduceGuestRead ==
    /\ streamIO.gpc = "running"
    /\ ConsumerRead \/ ConsumerWake

\* The guest call is over, whether or not it read the argument to its end
ProduceGuestEnds ==
    /\ streamIO.gpc = "running"
    /\ \E r \in {"returned", "raised"} : streamIO' = [streamIO EXCEPT !.gpc = r]
    /\ UNCHANGED <<StreamFrame, stream>>

\* _run_operation after `await operation`: the except block cancels the
\* producer, and both paths go on to gather it
ProduceRunAfterOp ==
    /\ streamIO.rpc = "awaitOp"
    /\ streamIO.gpc \in {"returned", "raised"}
    /\ streamIO' = [streamIO EXCEPT
                       !.rpc = IF streamIO.gpc = "returned" THEN "okJoin"
                               ELSE "exceptJoin",
                       !.cancelReq = IF streamIO.gpc = "raised"
                                        /\ streamIO.ppc \in ProduceLive
                                     THEN TRUE ELSE @]
    /\ UNCHANGED <<StreamFrame, stream>>

\* The gather over the producer is done once the producer task is
ProduceRunAfterJoin ==
    /\ streamIO.rpc \in {"okJoin", "exceptJoin"}
    /\ streamIO.ppc \in ProduceTerminal
    /\ streamIO' = [streamIO EXCEPT
                       !.rpc = IF streamIO.rpc = "okJoin" /\ streamIO.ppc = "done"
                               THEN "ok" ELSE "failed"]
    /\ UNCHANGED <<StreamFrame, stream>>

NextProduce ==
    \/ ProduceCancelledUnstarted
    \/ ProduceCancelled
    \/ ProduceItem
    \/ ProducePushResume
    \/ ProducerTaskCancel
    \/ ProduceRunStart
    \/ ProduceGuestRead
    \/ ProduceGuestEnds
    \/ ProduceRunAfterOp
    \/ ProduceRunAfterJoin

SpecProduce == InitProduce /\ [][NextProduce]_vars

\* Scheduling: the loop steps every task that can go on, and a running guest
\* call comes to its end
FairnessProduce ==
    /\ WF_vars(ProduceCancelledUnstarted)
    /\ WF_vars(ProduceCancelled)
    /\ WF_vars(ProduceItem)
    /\ WF_vars(ProducePushResume)
    /\ WF_vars(ProduceRunStart)
    /\ WF_vars(ProduceGuestEnds)
    /\ WF_vars(ProduceRunAfterOp)
    /\ WF_vars(ProduceRunAfterJoin)

FairSpecProduce == InitProduce /\ [][NextProduce]_vars /\ FairnessProduce

\* C32: whenever the producer task of a StreamArg built by from_async_iterable
\* has reached a terminal state (source exhausted, source or serialization
\* raised, a push failed, or the task was cancelled, even before its first
\* step), the stream has been ended.
C32_TerminalProducerEnded ==
    streamIO.ppc \in ProduceTerminal => stream.ended

\* What does hold: the stream is ended whenever a producer that was stepped
\* at least once is over
C32_StartedProducerEnded ==
    (streamIO.ppc \in ProduceTerminal /\ streamIO.why # "unstarted") => stream.ended

C33_FailureJoinReturns ==
    (streamIO.gpc = "raised") ~> (streamIO.rpc \in RunOpTerminal)

\* ------------------------------------------- run_stream calls that overlap
\* What a dispatch slot holds: None, the closure set_callback made, or the
\* _dispatch closure of run_stream call c
SlotNone == [kind |-> "None", call |-> 0]
SlotUser == [kind |-> "user", call |-> 0]
SlotSink(c) == [kind |-> "sink", call |-> c]

\* A sandbox with or without a callback registered, and no run_stream begun
InitOverlap ==
    /\ HostIdle
    /\ StreamIdle
    /\ CbIdle
    /\ RestIdle
    /\ \E before \in {SlotNone, SlotUser} :
          calls = [pc |-> [c \in CallIds |-> "idle"],
                   emits |-> [c \in CallIds |-> 0],
                   log |-> <<>>,
                   overlap |-> FALSE,
                   eventDispatch |-> before,
                   coreCb |-> before,
                   before |-> before,
                   previous |-> [c \in CallIds |-> SlotNone],
                   gen |-> [c \in CallIds |-> "new"],
                   active |-> <<>>,
                   nested |-> TRUE]

\* run_stream call c up to its first suspension: previous_dispatch is read,
\* _dispatch is installed in the sandbox and in the core, run_task is created
RunStreamEnter(c) ==
    /\ calls.gen[c] = "new"
    /\ calls.pc[c] = "idle"
    /\ calls' = [calls EXCEPT
                    !.gen[c] = "active",
                    !.previous[c] = calls.eventDispatch,
                    !.eventDispatch = SlotSink(c),
                    !.coreCb = SlotSink(c),
                    !.active = Append(@, c),
                    !.pc[c] = "requested",
                    !.overlap = @ \/ \E d \in CallIds : InFlight(d)]
    /\ UNCHANGED <<hostVars, stream, streamIO, dlv, http, boxes, pollLoop>>

\* The active calls without call c
RECURSIVE Without(_, _)
Without(s, c) ==
    IF s = <<>> THEN <<>>
    ELSE IF Head(s) = c THEN Without(Tail(s), c)
    ELSE <<Head(s)>> \o Without(Tail(s), c)

\* run_stream's finally: `if self._event_dispatch is _dispatch:` restore
RunStreamRestore(slot, c, previous) ==
    IF slot = SlotSink(c) THEN previous ELSE slot

\* run_stream call c exits, its run over or cut off: the finally block
RunStreamExit(c) ==
    /\ calls.gen[c] = "active"
    /\ calls' = [calls EXCEPT
                    !.gen[c] = "exited",
                    !.eventDispatch = RunStreamRestore(@, c, calls.previous[c]),
                    !.coreCb = IF calls.eventDispatch = SlotSink(c)
                               THEN calls.previous[c] ELSE @,
                    !.nested = @ /\ calls.active[Len(calls.active)] = c,
                    !.active = Without(@, c),
                    !.pc[c] = "ended",
                    !.log = IF calls.pc[c] = "running"
                            THEN Append(@, [call |-> c, what |-> "end"]) ELSE @]
    /\ UNCHANGED <<hostVars, stream, streamIO, dlv, http, boxes, pollLoop>>

NextOverlap ==
    \/ \E c \in CallIds : RunStreamEnter(c)
    \/ \E c \in CallIds : CoreStart(c)
    \/ \E c \in CallIds : CoreEmit(c)
    \/ \E c \in CallIds : CoreEnd(c)
    \/ \E c \in CallIds : RunStreamExit(c)

SpecOverlap == InitOverlap /\ [][NextOverlap]_vars

AllExited ==
    /\ \E c \in CallIds : calls.gen[c] = "exited"
    /\ \A c \in CallIds : calls.gen[c] # "active"

\* C34: after any set of run_stream calls on one sandbox, overlapping and
\* finishing in any order, have all exited with no set_callback in between,
\* the registered callback is the one registered before the first of them
\* began, never the dispatch of an already finished run_stream.
C34_CallbackRestored ==
    AllExited => calls.eventDispatch = calls.before /\ calls.coreCb = calls.before

\* What does hold: the callback is restored when the calls exit in the
\* reverse of the order they began in
C34_RestoredWhenNested ==
    (AllExited /\ calls.nested) =>
        calls.eventDispatch = calls.before /\ calls.coreCb = calls.before

\* ------------------------------------- the default handler when cancelled
\* C35: when the default HTTP handler is cancelled while it is sending the
\* request, for example because the bridge's timeout expired, its HTTP client
\* is closed.
C35_ClientClosedOnCancel ==
    (http.handler = "cancelled" /\ http.exc = "CancelledError") =>
        http.client = "closed"

\* ------------------------------------------------- the guest's PollLoop
MaxPollables == 3   \* pollables registered with the loop in one run
MaxCallbacks == 4   \* callbacks of the guest program that do something

PollableIds == 1..MaxPollables

\* An entry of self.wakers, (pollable, waker): the waker is a TimerHandle or
\* a Future, which may have been cancelled by the task that awaited it
Waker(id, timer) == [id |-> id, timer |-> timer, cancelled |-> FALSE]
\* An entry of self.handles: the handle of a call_soon, or a timer that fired
CallbackHandle == [id |-> 0, timer |-> FALSE, cancelled |-> FALSE]

Ids(w) == {w[i].id : i \in 1..Len(w)}

\* pollable.release()
Release(released, id) == [released EXCEPT ![id] = @ + 1]

\* What a callback of the guest program does when the loop runs it
Effects == {"nothing", "subscribe", "call_later", "call_soon", "cancel timer",
            "cancel future", "complete", "stop"}

\* The loop test that does not look at the wakers
LoopContinues_HandlesOnly(pl) ==
    pl.running /\ pl.handles # <<>> /\ ~pl.done

\* `while self.running and (self.handles or self.wakers) and (not future.done())`
LoopContinues(pl) ==
    pl.running /\ (pl.handles # <<>> \/ pl.wakers # <<>>) /\ ~pl.done

\* The waker list with its last entry dropped, whichever timer was cancelled
WakersAfterCancel_PopLast(w, id) ==
    IF id \in Ids(w) THEN SubSeq(w, 1, Len(w) - 1) ELSE w

\* _timer_handle_cancelled: `w[i] = w[ln - 1]; w.pop()` for the entry of the handle
WakersAfterCancel(w, id) ==
    IF id \in Ids(w)
    THEN LET i == CHOOSE k \in 1..Len(w) : w[k].id = id
         IN SubSeq([w EXCEPT ![i] = w[Len(w)]], 1, Len(w) - 1)
    ELSE w

\* The loop as PollLoop() and run_until_complete(future) leave it when
\* _run_until_complete is entered: ensure_future has scheduled the first step
InitPoll ==
    /\ HostIdle
    /\ CallsIdle
    /\ StreamIdle
    /\ CbIdle
    /\ HttpIdle
    /\ BoxesIdle
    /\ \E gen \in BOOLEAN :
          pollLoop = [pc |-> "test", running |-> TRUE, done |-> FALSE,
                      generator |-> gen,
                      handles |-> <<CallbackHandle>>, wakers |-> <<>>,
                      nextId |-> 1, callbacks |-> 0,
                      released |-> [i \in PollableIds |-> 0],
                      cancelled |-> {}, cancelledEarly |-> {}, ran |-> {},
                      swept |-> {}, swapped |-> FALSE, polledDone |-> FALSE,
                      outcome |-> "-"]

PollFrame == <<hostVars, calls, stream, streamIO, dlv, http, boxes>>

\* Timers that were set and whose callback can still be cancelled: those
\* waiting among the wakers, and those that fired and wait among the handles
TimersWaiting(pl) == {pl.wakers[i].id : i \in {k \in 1..Len(pl.wakers) : pl.wakers[k].timer}}
TimersFired(pl) ==
    {pl.handles[i].id : i \in {k \in 1..Len(pl.handles) :
                                  pl.handles[k].timer /\ ~pl.handles[k].cancelled}}
FuturesWaiting(pl) ==
    {pl.wakers[i].id : i \in {k \in 1..Len(pl.wakers) :
                                 ~pl.wakers[k].timer /\ ~pl.wakers[k].cancelled}}

\* Whether a callback can do `effect` to the pollable `id` as the loop is
CanDo(pl, effect, id) ==
    CASE effect = "nothing" -> id = 0
      [] effect \in {"subscribe", "call_later"} ->
            id = pl.nextId /\ id <= MaxPollables /\ pl.callbacks < MaxCallbacks
      [] effect = "cancel timer" ->
            id \in TimersWaiting(pl) \cup TimersFired(pl) /\ pl.callbacks < MaxCallbacks
      [] effect = "cancel future" ->
            id \in FuturesWaiting(pl) /\ pl.callbacks < MaxCallbacks
      [] effect = "complete" -> id = 0 /\ ~pl.done /\ pl.callbacks < MaxCallbacks
      [] effect = "stop" -> id = 0 /\ pl.running /\ pl.callbacks < MaxCallbacks
      [] OTHER -> id = 0 /\ pl.callbacks < MaxCallbacks

\* The loop after a callback did `effect`: subscribe, call_later and call_soon
\* append to the wakers or the handles; TimerHandle.cancel goes through
\* _timer_handle_cancelled; Future.cancel schedules the future's callbacks
DoEffect(pl, effect, id) ==
    LET q == [pl EXCEPT !.callbacks = IF effect = "nothing" THEN @ ELSE @ + 1]
    IN CASE effect = "subscribe" ->
               [q EXCEPT !.wakers = Append(@, Waker(id, FALSE)), !.nextId = @ + 1]
         [] effect = "call_later" ->
               [q EXCEPT !.wakers = Append(@, Waker(id, TRUE)), !.nextId = @ + 1]
         [] effect = "call_soon" ->
               [q EXCEPT !.handles = Append(@, CallbackHandle)]
         [] effect = "cancel timer" ->
               [q EXCEPT
                   !.wakers = WakersAfterCancel(@, id),
                   !.released = IF id \in Ids(pl.wakers) THEN Release(@, id) ELSE @,
                   !.cancelled = @ \cup {id},
                   !.cancelledEarly = IF id \in Ids(pl.wakers) THEN @ \cup {id} ELSE @,
                   !.swapped = @ \/ (id \in Ids(pl.wakers)
                                        /\ pl.wakers[Len(pl.wakers)].id # id),
                   !.handles = [i \in 1..Len(pl.handles) |->
                                   IF pl.handles[i].id = id
                                   THEN [pl.handles[i] EXCEPT !.cancelled = TRUE]
                                   ELSE pl.handles[i]]]
         [] effect = "cancel future" ->
               [q EXCEPT
                   !.wakers = [i \in 1..Len(pl.wakers) |->
                                  IF pl.wakers[i].id = id
                                  THEN [pl.wakers[i] EXCEPT !.cancelled = TRUE]
                                  ELSE pl.wakers[i]],
                   !.cancelled = @ \cup {id},
                   !.handles = Append(@, CallbackHandle)]
         [] effect = "complete" -> [q EXCEPT !.done = TRUE]
         [] effect = "stop" -> [q EXCEPT !.running = FALSE]
         [] OTHER -> q

\* What the callback of a handle does: one thing and then another, or less
Runs(pl) ==
    {r \in [first : Effects, id1 : 0..MaxPollables,
            then : Effects, id2 : 0..MaxPollables] :
        /\ CanDo(pl, r.first, r.id1)
        /\ CanDo(DoEffect(pl, r.first, r.id1), r.then, r.id2)
        /\ r.first = "nothing" => r.then = "nothing"}

\* `handle = self.handles.popleft(); if not handle._cancelled: handle._run()`
HandleRun(pl, r) ==
    LET handle == Head(pl.handles)
        popped == [pl EXCEPT !.handles = Tail(@)]
        timed == [popped EXCEPT !.ran = IF handle.timer THEN @ \cup {handle.id} ELSE @]
    IN IF handle.cancelled THEN popped
       ELSE DoEffect(DoEffect(timed, r.first, r.id1), r.then, r.id2)

\* _run_until_complete: the test of the outer while
LoopTest ==
    /\ pollLoop.pc = "test"
    /\ pollLoop' = [pollLoop EXCEPT
                       !.pc = IF LoopContinues(pollLoop) THEN "drain" ELSE "after"]
    /\ UNCHANGED PollFrame

\* One pass of the inner `while self.handles`
LoopHandle ==
    /\ pollLoop.pc = "drain"
    /\ pollLoop.handles # <<>>
    /\ \E r \in Runs([pollLoop EXCEPT !.handles = Tail(@)]) :
          /\ Head(pollLoop.handles).cancelled => r.first = "nothing"
          /\ pollLoop' = HandleRun(pollLoop, r)
    /\ UNCHANGED PollFrame

\* What the wakers that poll reported ready put on the handles
RECURSIVE ReadyHandles(_, _)
ReadyHandles(w, readyset) ==
    IF w = <<>> THEN <<>>
    ELSE LET rest == ReadyHandles(Tail(w), readyset)
             e == Head(w)
         IN IF e.id \notin readyset THEN rest
            ELSE IF e.timer THEN <<e>> \o rest
            ELSE IF ~e.cancelled THEN <<CallbackHandle>> \o rest
            ELSE rest

RECURSIVE KeptWakers(_, _)
KeptWakers(w, readyset) ==
    IF w = <<>> THEN <<>>
    ELSE IF Head(w).id \in readyset THEN KeptWakers(Tail(w), readyset)
    ELSE <<Head(w)>> \o KeptWakers(Tail(w), readyset)

\* `if self.wakers and (readyset := _isola_sys.poll(self.wakers))`: with no
\* waker there is no poll; the poll blocks until some pollable is ready, then
\* a ready timer goes to the handles, a ready future that is not cancelled gets
\* its result and its pollable is released, and the others stay
LoopPoll ==
    /\ pollLoop.pc = "drain"
    /\ pollLoop.handles = <<>>
    /\ IF pollLoop.wakers = <<>>
       THEN pollLoop' = [pollLoop EXCEPT !.pc = "test"]
       ELSE \E readyset \in SUBSET Ids(pollLoop.wakers) :
               /\ readyset # {}
               /\ pollLoop' =
                     [pollLoop EXCEPT
                         !.pc = "test",
                         !.polledDone = @ \/ pollLoop.done,
                         !.handles = ReadyHandles(pollLoop.wakers, readyset),
                         !.wakers = KeptWakers(pollLoop.wakers, readyset),
                         !.released =
                            [i \in PollableIds |->
                                IF \E k \in 1..Len(pollLoop.wakers) :
                                      /\ pollLoop.wakers[k].id = i
                                      /\ i \in readyset
                                      /\ ~pollLoop.wakers[k].timer
                                      /\ ~pollLoop.wakers[k].cancelled
                                THEN @[i] + 1 ELSE @[i]]]
    /\ UNCHANGED PollFrame

\* After the loop: RuntimeError("Deadlock detected"), or future.result()
LoopExit ==
    /\ pollLoop.pc = "after"
    /\ pollLoop' = [pollLoop EXCEPT
                       !.pc = "cleanup",
                       !.outcome = IF ~pollLoop.done /\ pollLoop.running
                                   THEN "Deadlock detected"
                                   ELSE IF pollLoop.done THEN "result"
                                   ELSE "InvalidStateError"]
    /\ UNCHANGED PollFrame

\* run_async_generator: the value is yielded and the next anext(it) is run
GeneratorNext ==
    /\ pollLoop.pc = "after"
    /\ pollLoop.generator
    /\ pollLoop.done
    /\ pollLoop.running
    /\ pollLoop.callbacks < MaxCallbacks
    /\ pollLoop' = [pollLoop EXCEPT !.pc = "test", !.done = FALSE,
                                    !.callbacks = @ + 1,
                                    !.handles = Append(@, CallbackHandle)]
    /\ UNCHANGED PollFrame

\* _cleanup: one pass of its inner `while self.handles`
CleanupHandle ==
    /\ pollLoop.pc = "cleanup"
    /\ pollLoop.handles # <<>>
    /\ \E r \in Runs([pollLoop EXCEPT !.handles = Tail(@)]) :
          /\ Head(pollLoop.handles).cancelled => r.first = "nothing"
          /\ pollLoop' = HandleRun(pollLoop, r)
    /\ UNCHANGED PollFrame

\* _cleanup: `for pollable, waker in self.wakers: waker.cancel();
\* pollable.release()` from entry i on, over the list as the loop body leaves
\* it: cancelling a TimerHandle calls _timer_handle_cancelled, which releases
\* the pollable and moves the last entry into the place of this one
RECURSIVE CleanupSweep(_, _, _)
CleanupSweep(pl, w, i) ==
    IF i > Len(w) THEN pl
    ELSE LET e == w[i]
         IN IF e.timer
            THEN CleanupSweep([pl EXCEPT !.released = Release(Release(@, e.id), e.id),
                                         !.cancelled = @ \cup {e.id}],
                              WakersAfterCancel(w, e.id), i + 1)
            ELSE CleanupSweep([pl EXCEPT !.released = Release(@, e.id),
                                         !.cancelled = @ \cup {e.id},
                                         !.handles = IF e.cancelled THEN @
                                                     ELSE Append(@, CallbackHandle)],
                              w, i + 1)

\* _cleanup: the for loop over the wakers, and `self.wakers.clear()`
CleanupWakers ==
    /\ pollLoop.pc = "cleanup"
    /\ pollLoop.handles = <<>>
    /\ pollLoop.wakers # <<>>
    /\ pollLoop' = [CleanupSweep(pollLoop, pollLoop.wakers, 1) EXCEPT
                       !.wakers = <<>>,
                       !.swept = @ \cup Ids(pollLoop.wakers)]
    /\ UNCHANGED PollFrame

\* run_until_complete's finally after _cleanup: `self.running = False`
CleanupDone ==
    /\ pollLoop.pc = "cleanup"
    /\ pollLoop.handles = <<>>
    /\ pollLoop.wakers = <<>>
    /\ pollLoop' = [pollLoop EXCEPT !.pc = "exited", !.running = FALSE]
    /\ UNCHANGED PollFrame

NextPoll ==
    \/ LoopTest
    \/ LoopHandle
    \/ LoopPoll
    \/ LoopExit
    \/ GeneratorNext
    \/ CleanupHandle
    \/ CleanupWakers
    \/ CleanupDone

SpecPoll == InitPoll /\ [][NextPoll]_vars

Registered == 1..(pollLoop.nextId - 1)

\* C36: when the awaited future is not done while the loop is running and has
\* neither queued handles nor registered wakers, _run_until_complete raises
\* RuntimeError("Deadlock detected") instead of blocking or returning, and it
\* never raises it while a handle or a waker remains.
C36_DeadlockDetected ==
    /\ [][(pollLoop.pc = "test" /\ pollLoop.running /\ ~pollLoop.done
             /\ pollLoop.handles = <<>> /\ pollLoop.wakers = <<>>)
            => pollLoop'.pc = "after"]_vars
    /\ [][(pollLoop.pc = "after" /\ pollLoop.running /\ ~pollLoop.done)
            => pollLoop'.outcome = "Deadlock detected"]_vars
    /\ [][(pollLoop'.outcome = "Deadlock detected" /\ pollLoop.outcome = "-")
            => /\ pollLoop.handles = <<>>
               /\ pollLoop.wakers = <<>>
               /\ pollLoop.running
               /\ ~pollLoop.done]_vars

C36_Witness ==
    /\ pollLoop.outcome = "Deadlock detected"
    /\ pollLoop.nextId > 1
    /\ pollLoop.ran # {}

\* C37: when run_until_complete (or a finished or closed run_async_generator)
\* exits, the loop has no queued handles and no registered wakers: every waker
\* that was still registered has been cancelled and its pollable released, and
\* running is False.
C37_CleanAtExit ==
    pollLoop.pc = "exited" =>
        /\ pollLoop.handles = <<>>
        /\ pollLoop.wakers = <<>>
        /\ ~pollLoop.running
        /\ \A id \in pollLoop.swept :
              id \in pollLoop.cancelled /\ pollLoop.released[id] >= 1

\* What does hold: at the exit there are no handles and no wakers, and
\* running is False
C37_EmptyAtExit ==
    pollLoop.pc = "exited" =>
        pollLoop.handles = <<>> /\ pollLoop.wakers = <<>> /\ ~pollLoop.running

\* C38: cancelling a call_later / call_at timer before it fires removes
\* exactly that timer's entry from the waker list and releases its pollable;
\* every other registered waker stays registered, the cancelled timer's
\* callback never runs, and the timer no longer keeps the loop waiting.
C38_TimerCancelFrame ==
    /\ [][LET now == pollLoop'.cancelledEarly \ pollLoop.cancelledEarly
              old == 1..(pollLoop.nextId - 1)
          IN now # {} =>
                /\ Ids(pollLoop'.wakers) \cap old = Ids(pollLoop.wakers) \ now
                /\ \A id \in PollableIds :
                      pollLoop'.released[id] =
                         pollLoop.released[id] + (IF id \in now THEN 1 ELSE 0)]_vars
    /\ [](/\ pollLoop.cancelledEarly \cap pollLoop.ran = {}
          /\ pollLoop.cancelledEarly \cap Ids(pollLoop.wakers) = {}
          /\ pollLoop.cancelledEarly \cap Ids(pollLoop.handles) = {})

C38_Witness ==
    /\ pollLoop.swapped
    /\ pollLoop.wakers # <<>>
    /\ pollLoop.pc = "drain"

\* C39: every pollable registered with the loop, by subscribe or by
\* call_later, is released exactly once by the time the loop run exits,
\* a pollable that becomes ready after its future was cancelled and a timer
\* pollable that fired included.
C39_ReleasedOnce ==
    pollLoop.pc = "exited" => \A id \in Registered : pollLoop.released[id] = 1

\* What does hold: the pollable of a timer cancelled before it fired is
\* released exactly once
C39_CancelledTimerReleasedOnce ==
    \A id \in pollLoop.cancelledEarly : pollLoop.released[id] = 1

\* C40: once the future passed to _run_until_complete is done, the loop
\* returns its result without another blocking poll on the wakers that are
\* still registered.
C40_NoPollOnceDone ==
    ~pollLoop.polledDone

\* What does hold: the loop test that finds the future done leaves the loop
C40_TestLeavesWhenDone ==
    [][(pollLoop.pc = "test" /\ pollLoop.done) => pollLoop'.pc = "after"]_vars

====
